---- MODULE Spec2Model ----
(***************************************************************************)
(* rollup-plugin-css: the two-phase asset / chunk pipeline.                *)
(*                                                                         *)
(* Phase one (transform, one run per style file): esbuild bundles the      *)
(* file and calls the plugin's onResolve handler for every url() token and *)
(* @import rule; the handler records a CssInputItem and, for emitted       *)
(* assets, hands esbuild a placeholder instead of a path.                  *)
(* Phase two (generateBundle): css files are emitted per module and per    *)
(* chunk, the used assets are read and emitted, and renderCssFiles         *)
(* substitutes every placeholder by the url of the emitted asset.          *)
(*                                                                         *)
(* Paths are sequences of segments ("/src/sub/b.css" is                    *)
(* <<"", "src", "sub", "b.css">>, as String.split('/') yields them); css   *)
(* text is a sequence of tokens [t, v]: literal text, a placeholder, a     *)
(* data url, an external url, a rendered url, or a line break.             *)
(***************************************************************************)
EXTENDS Integers, Sequences, FiniteSets, TLC

\* Upper bound on the number of onResolve invocations of one build.
MaxRefs == 2

(***************************************************************************)
(* The project that is built.                                              *)
(***************************************************************************)
FileA == <<"", "src", "a.css">>
FileB == <<"", "src", "sub", "b.css">>
FileC == <<"", "src", "dyn", "c.css">>
FileJ == <<"", "src", "main.js">>
FileD == <<"", "src", "dyn", "d.js">>
Img   == <<"", "src", "sub", "img.png">>
Font  == <<"", "src", "font.woff">>
Part  == <<"", "src", "part.css">>

\* The files accepted by the include filter, each one run through transform.
StyleFiles == {FileA, FileB, FileC}
\* this.getModuleIds(), in the host's order.
ModuleIds == <<FileJ, FileA, FileB, FileD, FileC>>

\* A module outside src/ that is no style file, and the module ids of the
\* project: the "vendor" project imports that module, the "app" project
\* does not.
VendorModule == <<"", "lib", "x.js">>
\* Two more modules that are no style files: the "nested" project imports
\* e.js, the "twins" project util.js.
FileE == <<"", "src", "dyn", "e.js">>
FileU == <<"", "src", "util.js">>
getModuleIds(project) ==
  IF project = "vendor" THEN <<VendorModule>> \o ModuleIds
  ELSE IF project = "nested" THEN ModuleIds \o <<FileE>>
  ELSE IF project = "twins" THEN ModuleIds \o <<FileU>>
  ELSE ModuleIds

\* The path that stands for null / undefined / the empty string (all falsy).
Null == <<>>

\* Elements of a sequence.
Range(s) == {s[i] : i \in 1..Len(s)}

RECURSIVE Flat(_)
Flat(ss) == IF ss = <<>> THEN <<>> ELSE Head(ss) \o Flat(Tail(ss))

Tok(t, v) == [t |-> t, v |-> v]
Break == Tok("break", <<>>)

(***************************************************************************)
(* node's path module and the Path Utilities.                              *)
(***************************************************************************)
\* The root is its own directory; a bare file name lies in '.', the empty path.
dirname(p) == IF p = <<"">> THEN p ELSE SubSeq(p, 1, Len(p) - 1)

basename(p) == IF p = <<>> THEN <<>> ELSE <<p[Len(p)]>>

\* Length of the longest common prefix of two segment lists.
RECURSIVE CommonLen(_, _)
CommonLen(a, b) ==
  IF a = <<>> \/ b = <<>> \/ Head(a) # Head(b) THEN 0
  ELSE 1 + CommonLen(Tail(a), Tail(b))

\* path.relative(from, to) of two absolute paths: one ".." per segment of
\* `from` below the common ancestor, then the rest of `to`.
relative(from, to) ==
  LET n == CommonLen(from, to)
  IN [i \in 1..(Len(from) - n) |-> ".."] \o SubSeq(to, n + 1, Len(to))

RECURSIVE CommonSegments(_, _)
CommonSegments(acc, files) ==
  IF files = <<>> THEN acc
  ELSE CommonSegments(SubSeq(acc, 1, CommonLen(acc, Head(files))), Tail(files))

commonDir(files) ==
  IF Len(files) = 0 THEN <<"">>
  ELSE IF Len(files) = 1 THEN dirname(files[1])
  ELSE LET commonSegments == CommonSegments(files[1], Tail(files))
       IN IF Len(commonSegments) > 1 THEN commonSegments ELSE <<"">>

\* A base path computed from the style files alone.
getOutputBasePathOfStyleFiles(moduleIds) ==
  commonDir(SelectSeq(moduleIds, LAMBDA id : id \in StyleFiles))

getOutputBasePath(moduleIds) == commonDir(moduleIds)

(***************************************************************************)
(* Options of RollupCss.  Booleans and the kinds of customisation are      *)
(* strings; the user's callbacks are fixed representative functions.       *)
(***************************************************************************)
\* output.cssForChunks: 'extract', 'inject', an object with or without
\* extract and inject, false, null or undefined (kind); extract and inject
\* are "unset" but for an object that sets them.
CssForChunks(kind, extract, inject) == [kind |-> kind, extract |-> extract, inject |-> inject]
CssForChunksExtract == CssForChunks("extract", "unset", "unset")
CssForChunksObject(extract) == CssForChunks("object", extract, "unset")

defaultOptions ==
  [cssForChunks |-> CssForChunksExtract, cssAsAssets |-> "true",
   preserveDir |-> "true", publicPath |-> "null", inline |-> "false",
   file |-> "true", url |-> "null", resolve |-> "null"]

\* [extract, inject] of the plugin.
getCssForChunksOptions(cssForChunks) ==
  IF cssForChunks.kind = "extract" THEN <<"true", "false">>
  ELSE IF cssForChunks.kind = "inject" THEN <<"false", "true">>
  ELSE IF cssForChunks.kind \in {"object", "null"}
    THEN <<IF cssForChunks.kind = "object" /\ cssForChunks.extract # "unset"
           THEN cssForChunks.extract ELSE "false",
           IF cssForChunks.kind = "object" /\ cssForChunks.inject # "unset"
           THEN cssForChunks.inject ELSE "false">>
  ELSE <<"false", "false">>

\* RollupCss(options): an undefined cssForChunks takes the default of the
\* parameter; extract is what getCssForChunksOptions makes of the result.
\* The record keeps the cssForChunks the plugin was created with and the
\* project it is used in.
RollupCss(o) ==
  LET cssForChunks == IF o.cssForChunks.kind = "undefined"
                      THEN defaultOptions.cssForChunks ELSE o.cssForChunks
  IN [x \in DOMAIN o \cup {"extract"} |->
        IF x = "extract" THEN getCssForChunksOptions(cssForChunks)[1] ELSE o[x]]

\* The options the extraction of css is checked with ...
ExtractOptions ==
  {RollupCss(o) : o \in
     [cssAsAssets  : {"true", "false"},
      cssForChunks : {CssForChunksExtract, CssForChunksObject("false"),
                      CssForChunksObject("function")},
      preserveDir  : {"true"},
      publicPath   : {"null"},
      inline       : {"false"},
      file         : {"true", "function"},
      url          : {"null"},
      resolve      : {"null"},
      project      : {"app"},
      disk         : {"ok"}]}

\* ... the options the rendering is checked with: the default extraction ...
RenderOptions == {o \in ExtractOptions : o.cssForChunks = CssForChunksExtract}

\* ... the options the naming and inlining of assets is checked with ...
AssetOptions ==
  {RollupCss(o) : o \in
     [cssAsAssets  : {"true"},
      cssForChunks : {CssForChunksExtract},
      preserveDir  : {"true", "false", "css", "asset", "function"},
      publicPath   : {"null"},
      inline       : {"false", "true", "regexp", "function", "array"},
      file         : {"true", "function"},
      url          : {"null"},
      resolve      : {"null"},
      project      : {"app"},
      disk         : {"ok"}]}

\* ... the options the urls and the names of the output are checked with ...
UrlOptions ==
  {RollupCss(o) : o \in
     [cssAsAssets  : {"true"},
      cssForChunks : {CssForChunksExtract},
      preserveDir  : {"true"},
      publicPath   : {"null", "string"},
      inline       : {"false"},
      file         : {"true", "function", "false"},
      url          : {"null", "function"},
      resolve      : {"null"},
      project      : {"app"},
      disk         : {"ok"}]}

\* ... and the options the configuration of the plugin is checked with.
ConfigOptions ==
  {RollupCss(o) : o \in
     [cssAsAssets  : {"true"},
      cssForChunks : {CssForChunksExtract, CssForChunks("inject", "unset", "unset"),
                      CssForChunksObject("unset"), CssForChunksObject("true"),
                      CssForChunks("object", "unset", "true"),
                      CssForChunks("false", "unset", "unset"),
                      CssForChunks("null", "unset", "unset"),
                      CssForChunks("undefined", "unset", "unset")},
      preserveDir  : {"true"},
      publicPath   : {"null"},
      inline       : {"false"},
      file         : {"true"},
      url          : {"null"},
      resolve      : {"null", "function"},
      project      : {"app", "vendor"},
      disk         : {"ok"}]}

\* The options the reads of the assets are checked with: on one of the disks
\* the read of the font fails.
ReadOptions ==
  {RollupCss(o) : o \in
     [cssAsAssets  : {"true", "false"},
      cssForChunks : {CssForChunksExtract, CssForChunksObject("false")},
      preserveDir  : {"true"},
      publicPath   : {"null"},
      inline       : {"false"},
      file         : {"true"},
      url          : {"null"},
      resolve      : {"null"},
      project      : {"app"},
      disk         : {"ok", "fontUnreadable"}]}

\* The options the chunks of the host's output are checked with: the default
\* extraction in both projects, an extract function in the "nested" one.
ChunkOptions ==
  {RollupCss(o) : o \in
     {x \in [cssAsAssets  : {"true"},
             cssForChunks : {CssForChunksExtract, CssForChunksObject("function")},
             preserveDir  : {"true"},
             publicPath   : {"null"},
             inline       : {"false"},
             file         : {"true"},
             url          : {"null"},
             resolve      : {"null"},
             project      : {"nested", "twins"},
             disk         : {"ok"}] :
        x.project = "twins" => x.cssForChunks = CssForChunksExtract}}

\* assets.inline = /\.woff$/, = (p) => p.endsWith('.png'), = [/\.woff$/, (p) => ...]
InlineRegExp(path) == path = Font
InlineFunction(path) == path = Img

\* assets.file = (id, defaultName, isCss) => ...: no output for the font, the
\* image below static/, every other file under its default name.
FileFunction(id, defaultName, isCss) ==
  IF id = Font THEN Null
  ELSE IF id = Img THEN <<"static">> \o defaultName
  ELSE defaultName

(***************************************************************************)
(* esbuild.ts: the resolve handler of runEsbuild.                          *)
(***************************************************************************)
\* The specifiers found in the style files and what the host resolves them to.
TextImg     == <<".", "sub", "img.png">>
TextImgAlt  == <<"~", "img.png">>
TextFont    == <<".", "font.woff">>
TextPart    == <<".", "part.css">>
TextMissing == <<".", "missing.png">>
TextRoot    == <<"", "abs", "logo.png">>
TextHash    == <<"#icon">>
TextHttp    == <<"http:", "", "cdn", "x.png">>

NoResult == [ok |-> FALSE, path |-> <<>>, external |-> FALSE]
Result(path, external) == [ok |-> TRUE, path |-> path, external |-> external]

\* rollupPluginContext.resolve(pathToResolve, importer): the host's answer.
RollupResolve(pathToResolve) ==
  CASE pathToResolve = TextImg    -> Result(Img, FALSE)
    [] pathToResolve = TextImgAlt -> Result(Img, FALSE)
    [] pathToResolve = TextFont   -> Result(Font, FALSE)
    [] pathToResolve = TextPart   -> Result(Part, FALSE)
    [] OTHER                      -> NoResult

processedImportKinds == {"url-token", "import-rule"}

\* The references esbuild may find in the style files: a.css may hold any of
\* them, c.css a url() of the image or of the font, b.css holds none.
Ref(kind, path) == [kind |-> kind, path |-> path]
Refs(f) ==
  IF f = FileA
  THEN {Ref("url-token", t) : t \in {TextImg, TextImgAlt, TextFont, TextMissing, TextRoot}}
       \cup {Ref("import-rule", TextPart)}
  ELSE IF f = FileC THEN {Ref("url-token", TextImg), Ref("url-token", TextFont)}
  ELSE {}

\* In the "vendor" project a.css refers to what lies outside the project.
VendorRefs(f) ==
  IF f = FileA
  THEN {Ref("url-token", t) : t \in {TextRoot, TextHash, TextHttp, TextFont}}
       \cup {Ref("import-rule", t) : t \in {TextRoot, TextHttp}}
  ELSE {}
RefsOf(project, f) == IF project = "vendor" THEN VendorRefs(f) ELSE Refs(f)

getIsInlined(path, inlineOption) ==
  CASE inlineOption = "function" -> InlineFunction(path)
    [] inlineOption = "regexp"   -> InlineRegExp(path)
    [] inlineOption = "array"    -> InlineRegExp(path) \/ InlineFunction(path)
    [] OTHER                     -> inlineOption = "true"

getResolveContext(kind) == IF kind = "import-rule" THEN "@import" ELSE "url"

\* A test that takes no path for a url.
isExternalUrlNever(path) == FALSE

\* new URL(path).protocol is one of http:, https:, data:
isExternalUrl(path) == path # <<>> /\ Head(path) \in {"http:", "https:", "data:"}

\* pathToResolve.startsWith('/') and pathToResolve.startsWith('#')
StartsWithSlash(path) == path # <<>> /\ Head(path) = ""
StartsWithHash(path) == path # <<>> /\ Head(path) \in {Head(TextHash)}

normalizeRollupResolveId(resolvedId, pathToResolve, resolveContext) ==
  IF resolvedId.ok THEN Result(resolvedId.path, resolvedId.external)
  ELSE IF resolveContext = "url" /\ StartsWithSlash(pathToResolve)
    THEN Result(pathToResolve, TRUE)
  ELSE IF resolveContext = "url" /\ StartsWithHash(pathToResolve)
    THEN Result(pathToResolve, TRUE)
  ELSE IF resolveContext = "url" /\ isExternalUrl(pathToResolve)
    THEN Result(pathToResolve, TRUE)
  ELSE NoResult

\* A placeholder that does not depend on the path.
PlaceholderConstant(path) == <<"_", "base64url">>

\* `_${Buffer.from(path).toString('base64url')}`: an injective encoding.
Placeholder(path) == <<"_", "base64url">> \o path

CssInputItem(path, external, inlined, placeholder) ==
  [path |-> path, external |-> external, inlined |-> inlined,
   placeholder |-> placeholder]

\* What one call of the handler does: the item pushed to inputs (has = FALSE:
\* none), the path pushed to watchFiles (Null: none) and the value returned
\* to esbuild (ret: "null", "dataurl", "placeholder" or "path").
NoItem == CssInputItem(<<>>, FALSE, "unset", <<>>)
Handled(has, item, watch, ret, path, external) ==
  [has |-> has, item |-> item, watch |-> watch, ret |-> ret, path |-> path,
   external |-> external]
ReturnNull == Handled(FALSE, NoItem, Null, "null", <<>>, FALSE)

\* A handler that gives every resolved url token a placeholder.
UrlTokenResultNeverInlined(path, inline) ==
  Handled(TRUE, CssInputItem(path, FALSE, "false", <<"_", "base64url">> \o path), path,
          "placeholder", <<"_", "base64url">> \o path, TRUE)

\* The branch taken for a resolved, non-external url token.
UrlTokenResult(path, inline) ==
  IF getIsInlined(path, inline)
  THEN Handled(TRUE, CssInputItem(path, FALSE, "true", <<>>), Null, "dataurl",
               path, FALSE)
  ELSE Handled(TRUE, CssInputItem(path, FALSE, "false", Placeholder(path)), path,
               "placeholder", Placeholder(path), TRUE)

\* resolve = (path, importer, context, defaultResult) => ...: fonts are served
\* from elsewhere, everything else keeps the default result.
ResolveFunction(pathToResolve, resolveContext, defaultResult) ==
  IF defaultResult.ok /\ defaultResult.path = Font THEN Result(Font, TRUE)
  ELSE defaultResult

\* A handler that treats import rules like url tokens.
onResolveAnyKind(pathToResolve, kind, inline, resolve) ==
  IF kind \notin processedImportKinds THEN ReturnNull
  ELSE IF isExternalUrl(pathToResolve) THEN ReturnNull
  ELSE
    LET resolveContext == getResolveContext(kind)
        rollupResult == RollupResolve(pathToResolve)
        normalizedRollupResult ==
          normalizeRollupResolveId(rollupResult, pathToResolve, resolveContext)
        result ==
          IF resolve = "function"
          THEN ResolveFunction(pathToResolve, resolveContext, normalizedRollupResult)
          ELSE normalizedRollupResult
    IN IF ~result.ok THEN ReturnNull
       ELSE IF ~result.external
         THEN UrlTokenResult(result.path, inline)
       ELSE Handled(TRUE, CssInputItem(result.path, result.external, "unset", <<>>),
                    Null, "path", result.path, result.external)

\* The resolvers one call of the handler awaits, in their order: the host's
\* rollupPluginContext.resolve, then the resolve option if it is a function.
ResolveCalls(pathToResolve, kind, resolve) ==
  IF kind \notin processedImportKinds THEN <<>>
  ELSE IF isExternalUrl(pathToResolve) THEN <<>>
  ELSE <<"host">> \o (IF resolve = "function" THEN <<"resolve">> ELSE <<>>)

onResolve(pathToResolve, kind, inline, resolve) ==
  IF kind \notin processedImportKinds THEN ReturnNull
  ELSE IF isExternalUrl(pathToResolve) THEN ReturnNull
  ELSE
    LET resolveContext == getResolveContext(kind)
        rollupResult == RollupResolve(pathToResolve)
        normalizedRollupResult ==
          normalizeRollupResolveId(rollupResult, pathToResolve, resolveContext)
        result ==
          IF resolve = "function"
          THEN ResolveFunction(pathToResolve, resolveContext, normalizedRollupResult)
          ELSE normalizedRollupResult
    IN IF ~result.ok THEN ReturnNull
       ELSE IF ~result.external /\ kind = "url-token"
         THEN UrlTokenResult(result.path, inline)
       ELSE Handled(TRUE, CssInputItem(result.path, result.external, "unset", <<>>),
                    Null, "path", result.path, result.external)

\* An esbuild that leaves a reference it cannot resolve as it is.
EsbuildOutputKeepsUnresolved(pathToResolve, handled) ==
  CASE handled.ret = "placeholder" -> Tok("placeholder", handled.path)
    [] handled.ret = "dataurl"     -> Tok("dataurl", handled.path)
    [] handled.ret = "path" /\ handled.external -> Tok("external", handled.path)
    [] handled.ret = "path" /\ ~handled.external -> Tok("text", handled.path)
    [] OTHER -> Tok("external", pathToResolve)

\* What esbuild writes into the bundled css for a reference, given the
\* handler's answer; "error" when neither the handler nor esbuild resolves it.
EsbuildOutput(pathToResolve, handled) ==
  CASE handled.ret = "placeholder" -> Tok("placeholder", handled.path)
    [] handled.ret = "dataurl"     -> Tok("dataurl", handled.path)
    [] handled.ret = "path" /\ handled.external -> Tok("external", handled.path)
    [] handled.ret = "path" /\ ~handled.external -> Tok("text", handled.path)
    [] handled.ret = "null" /\ isExternalUrl(pathToResolve) ->
         Tok("external", pathToResolve)
    [] OTHER -> Tok("error", pathToResolve)

(***************************************************************************)
(* cssProcessors.ts: the processors of a style file and resolvePaths.      *)
(***************************************************************************)
\* Upper bound on the number of imports of one processed file.
MaxImports == 2

\* The name of a processed file is the sequence of its parts between the
\* dots: "m.module.scss" is <<"m", "module", "scss">>.
SourceNames ==
  {<<"a", "css">>, <<"a", "scss">>, <<"a", "less">>, <<"s", "styl">>,
   <<"m", "module", "scss">>}

\* key.test(id) for the keys /\.(s[ac]ss)$/, /\.less$/, /\.(styl|stylus)$/
\* and a user's /\.module\.\S+$/.
RegExpTest(key, name) ==
  CASE key = "sass"   -> Len(name) > 1 /\ name[Len(name)] \in {"scss", "sass"}
    [] key = "less"   -> Len(name) > 1 /\ name[Len(name)] \in {"less"}
    [] key = "stylus" -> Len(name) > 1 /\ name[Len(name)] \in {"styl", "stylus"}
    [] key = "module" -> \E i \in 2..(Len(name) - 1) : name[i] = "module"
    [] OTHER          -> FALSE

\* One entry of the Map: the key and the processor that is its value.
ProcessorEntry(key, value) == [key |-> key, value |-> value]

\* export const cssProcessors = new Map([...]): sass, less, stylus.
cssProcessors ==
  <<ProcessorEntry("sass", "sass"), ProcessorEntry("less", "less"),
    ProcessorEntry("stylus", "stylus")>>

\* CssProcessors: a function or a Map of processors (entries in insertion
\* order).  The user's Maps hold a css-modules processor for *.module.* files
\* before or behind the sass processor.
CssProcessors(kind, entries) == [kind |-> kind, entries |-> entries]
CssProcessorsValues ==
  {CssProcessors("map", cssProcessors),
   CssProcessors("map", <<ProcessorEntry("sass", "sass"),
                          ProcessorEntry("module", "cssModules")>>),
   CssProcessors("map", <<ProcessorEntry("module", "cssModules"),
                          ProcessorEntry("sass", "sass")>>),
   CssProcessors("function", <<>>)}

\* The paths the processed files import, as the compilers hand them to the
\* load hooks (absolute), and the file a resolver plugin of the host knows.
VarsFile  == <<"", "src", "vars.scss">>
MixFile   == <<"", "src", "lib", "mix.scss">>
GoneFile  == <<"", "src", "gone.scss">>
ModuleMix == <<"", "node_modules", "lib", "mix.scss">>
ImportedPaths == {VarsFile, MixFile, GoneFile}

\* path.resolve(fileDir, unkownImporterFilePlaceholder) of the less file manager.
LessImporter == <<"", "src", "<unknown>">>

\* The disk (files and directories), process.cwd() and the resolver plugins
\* of the host: none, one that resolves 'lib/mix.scss', or one that also
\* marks 'mix.scss' as external.
DiskOfVars == {<<"">>, <<"", "src">>, VarsFile, ModuleMix}
DiskOfLib  == {<<"">>, <<"", "src">>, <<"", "src", "lib">>, ModuleMix}
Worlds ==
  [cwd : {<<"">>, <<"", "src">>}, disk : {DiskOfVars, DiskOfLib},
   plugin : {"none", "alias", "external"}, resolve : {"null", "function"}]

\* fs.existsSync(p): a relative path is taken from process.cwd().
existsSync(world, p) ==
  (IF StartsWithSlash(p) THEN p
   ELSE IF p = <<".">> THEN world.cwd
   ELSE world.cwd \o p) \in world.disk

\* rollupPluginContext.resolve(pathToResolve, importer): an absolute path
\* resolves to itself when it exists, a bare path only through a plugin.
HostResolve(world, pathToResolve, importer) ==
  IF StartsWithSlash(pathToResolve)
  THEN IF pathToResolve \in world.disk THEN Result(pathToResolve, FALSE) ELSE NoResult
  ELSE IF world.plugin \in {"alias", "external"} /\ pathToResolve = <<"lib", "mix.scss">>
    THEN Result(ModuleMix, FALSE)
  ELSE IF world.plugin = "external" /\ pathToResolve = <<"mix.scss">>
    THEN Result(pathToResolve, TRUE)
  ELSE NoResult

getDefaultResolveResult(result) ==
  IF result.ok THEN Result(result.path, result.external) ELSE result

\* info.resolve(pathToResolve, importer, context): the path the import
\* resolves to, null (the empty path) for none and for an external one.
InfoResolve(world, pathToResolve, importer, context) ==
  LET defaultResult ==
        getDefaultResolveResult(HostResolve(world, pathToResolve, importer))
      result ==
        IF world.resolve = "function"
        THEN ResolveFunction(pathToResolve, context, defaultResult)
        ELSE defaultResult
  IN IF result.ok THEN (IF result.external THEN Null ELSE result.path) ELSE Null

Reverse(s) == [i \in 1..Len(s) |-> s[Len(s) - i + 1]]

\* path.join(...segments) of segments without '..': empty and '.' segments
\* are dropped, nothing left is '.'.
pathJoin(segments) ==
  LET kept == SelectSeq(segments, LAMBDA s : s \notin {"", "."})
  IN IF kept = <<>> THEN <<".">> ELSE kept

\* A travelPath that walks forwards whatever it is asked for.
travelPathForwardsOnly(pathToTravel, backwards) ==
  Reverse([k \in 1..Len(pathToTravel) |-> pathJoin(SubSeq(pathToTravel, 1, k))])

\* travelPath(pathToTravel, backwards): backwards the ends of the path, the
\* shortest first; forwards its beginnings, the longest first.
travelPath(pathToTravel, backwards) ==
  LET pathSegments == pathToTravel
      n == Len(pathSegments)
      result ==
        SelectSeq([k \in 1..n |->
                     IF backwards THEN pathJoin(SubSeq(pathSegments, n - k + 1, n))
                     ELSE pathJoin(SubSeq(pathSegments, 1, k))],
                  LAMBDA p : p # Null)
  IN IF backwards THEN result ELSE Reverse(result)

\* Array.prototype.find((p) => fs.existsSync(p)); the empty path if none.
FindExisting(world, paths) ==
  LET found == SelectSeq(paths, LAMBDA p : existsSync(world, p))
  IN IF found = <<>> THEN Null ELSE Head(found)

\* resolvePaths up to its loop: the paths to resolve and the importer all of
\* them are resolved with.
pathsToResolve(world, importedPath) ==
  <<importedPath>> \o
  (IF existsSync(world, importedPath) THEN <<>> ELSE travelPath(importedPath, TRUE))

finalImporter(world, importedPath, importer) ==
  LET importedPathExists == existsSync(world, importedPath)
      resolvedImporter ==
        IF importedPathExists THEN importedPath
        ELSE FindExisting(world, travelPath(importedPath, FALSE))
  IN IF importer # Null THEN importer
     ELSE IF importedPathExists \/ resolvedImporter = Null THEN resolvedImporter
     ELSE pathJoin(resolvedImporter \o <<"<unknown>">>)

\* One attempt of the loop: what was resolved with which importer, and the
\* answer.
Attempt(path, importer, resolved) ==
  [path |-> path, importer |-> importer, resolved |-> resolved]

\* A call of resolvePaths: status "resolving" inside the loop, "resolved" or
\* "null" when it has returned, "loaded" or "failed" when the load hook that
\* called it has.
NewLoad(world, importedPath, importer) ==
  [status |-> "resolving", importedPath |-> importedPath, importer |-> importer,
   pathsToResolve |-> pathsToResolve(world, importedPath),
   finalImporter |-> finalImporter(world, importedPath, importer),
   at |-> 1, attempts |-> <<>>, resolvedPath |-> Null]
NoLoad ==
  [status |-> "idle", importedPath |-> Null, importer |-> Null,
   pathsToResolve |-> <<>>, finalImporter |-> Null, at |-> 1, attempts |-> <<>>,
   resolvedPath |-> Null]

\* One pass of the loop of resolvePaths, resolve having answered `resolved`:
\* break at the first path that is resolved, null after the last.
resolvePathsLoop(l, resolved) ==
  [l EXCEPT !.attempts = Append(@, Attempt(l.pathsToResolve[l.at], l.finalImporter, resolved)),
            !.resolvedPath = IF resolved # Null THEN resolved ELSE @,
            !.at = @ + 1,
            !.status = IF resolved # Null THEN "resolved"
                       ELSE IF l.at = Len(l.pathsToResolve) THEN "null"
                       ELSE "resolving"]

\* A call of runCssProcessors(cssProcessors, code, sourcemap, id, ...) for
\* the file `name` that imports `imports`: status "entries" while the
\* entries of the Map are tested, "processing" inside a processor,
\* "returned" or "thrown" at its end.  css is the code with the names of the
\* processors that compiled it, map the names of those that mapped it.
NewRun(name, processors, imports, world) ==
  [status |-> "entries", name |-> name, cssProcessors |-> processors,
   imports |-> imports, world |-> world, at |-> 1, processor |-> "none",
   css |-> <<"code">>, map |-> Null, watchFiles |-> <<>>, ran |-> <<>>,
   error |-> Null]
NoRun ==
  [NewRun(<<"a", "css">>, CssProcessors("map", cssProcessors), <<>>,
          [cwd |-> <<"">>, disk |-> DiskOfVars, plugin |-> "none", resolve |-> "null"])
   EXCEPT !.status = "idle"]

\* The imports of a file: up to MaxImports of the imported paths.
RECURSIVE ImportLists(_)
ImportLists(n) ==
  IF n = 0 THEN {<<>>}
  ELSE ImportLists(n - 1) \cup
       {Append(s, p) : s \in {x \in ImportLists(n - 1) : Len(x) = n - 1}, p \in ImportedPaths}

(***************************************************************************)
(* State.                                                                  *)
(***************************************************************************)
VARIABLES
  options,       \* the options RollupCss was created with
  builds,        \* per style file: the esbuild run of its transform
  moduleInfo,    \* per style file: the PluginMeta attached by transform
  phase,         \* position of the build
  bundle,        \* the output bundle handed to generateBundle, in key order
  extractAnswers,            \* per chunk: what the extract function answered
  emittedAssetCssFilesMeta,  \* result of emitAssetCssFiles
  emittedChunkCssFilesMeta,  \* result of emitChunkCssFiles
  assetFiles,    \* emitAssetFiles: one task per id that got a name
  renders,       \* renderCssFiles: one rendering per emitted css file
  buildError,    \* errors reported to the host
  run,           \* the call of runCssProcessors of a processed file
  load           \* the call of resolvePaths of a load hook

\* The state of the build of the bundle, and of the processing of a file.
pipelineVars == <<options, builds, moduleInfo, phase, bundle, extractAnswers,
                  emittedAssetCssFilesMeta, emittedChunkCssFilesMeta, assetFiles,
                  renders, buildError>>
processorVars == <<run, load>>
vars == <<pipelineVars, processorVars>>

NoMeta == [has |-> FALSE, id |-> <<>>, css |-> <<>>, inputs |-> <<>>]
PluginMeta(id, css, inputs) == [has |-> TRUE, id |-> id, css |-> css, inputs |-> inputs]

\* The esbuild run of a style file: the references handled so far, the
\* handler's inputs and watchFiles, the css bundled so far and esbuild's
\* errors; kinds[i] is the kind of the reference inputs[i] was pushed for.
NewBuild(f) ==
  [status |-> "running", refs |-> {}, inputs |-> <<>>, kinds |-> <<>>,
   calls |-> <<>>, watchFiles |-> <<>>, css |-> <<Tok("text", f)>>, errors |-> <<>>]

(***************************************************************************)
(* output.ts: names, emission, chunk extraction.                           *)
(***************************************************************************)
\* assets.preserveDir = (outputName, inputPath) => ...: keep the directory of
\* the files below sub/ only.
PreserveDirFunction(emitName, id) == Len(emitName) > 1 /\ Head(emitName) = "sub"

\* getPreserveDir with the meaning of 'css' and 'asset' exchanged.
getPreserveDirSwapped(preserveDir, emitName, id, isCss) ==
  IF preserveDir = "function" THEN PreserveDirFunction(emitName, id)
  ELSE IF preserveDir \in {"css", "asset"}
  THEN (preserveDir = "asset" /\ isCss) \/ (preserveDir = "css" /\ ~isCss)
  ELSE preserveDir = "true"

getPreserveDir(preserveDir, emitName, id, isCss) ==
  IF preserveDir = "function" THEN PreserveDirFunction(emitName, id)
  ELSE IF preserveDir \in {"css", "asset"}
  THEN (preserveDir = "css" /\ isCss) \/ (preserveDir = "asset" /\ ~isCss)
  ELSE preserveDir = "true"

getAssetName(outputBasePath, id, isCss, assetOptions) ==
  LET fullName == relative(outputBasePath, id)
      suggestedName ==
        IF getPreserveDir(assetOptions.preserveDir, fullName, id, isCss)
        THEN fullName ELSE basename(fullName)
  IN IF assetOptions.file = "function"
     THEN FileFunction(id, suggestedName, isCss) ELSE suggestedName

RECURSIVE getSubstitutions(_)
getSubstitutions(inputs) ==
  IF inputs = <<>> THEN <<>>
  ELSE (IF Head(inputs).placeholder # <<>>
        THEN <<<<Head(inputs).placeholder, Head(inputs).path>>>> ELSE <<>>)
       \o getSubstitutions(Tail(inputs))

\* The host (rollup 2): an asset emitted under a fileName takes that entry of
\* the bundle; one emitted under a name reuses the file of an asset with the
\* same source, or else gets a fresh file name from output.assetFileNames
\* ('assets/[name][extname]').
FileNames(b) == {b[i].fileName : i \in 1..Len(b)}
EntryOf(b, fileName) == b[CHOOSE i \in 1..Len(b) : b[i].fileName = fileName]

OutputAsset(fileName, name, source) ==
  [fileName |-> fileName, type |-> "asset", name |-> name, source |-> source,
   modules |-> <<>>, dynamicImports |-> <<>>]

OutputChunk(fileName, name, modules, dynamicImports) ==
  [fileName |-> fileName, type |-> "chunk", name |-> name, source |-> <<>>,
   modules |-> modules, dynamicImports |-> dynamicImports]

\* bundle[fileName] = asset, in the key order of the object.
SetEntry(b, asset) ==
  IF asset.fileName \in FileNames(b)
  THEN [i \in 1..Len(b) |-> IF b[i].fileName = asset.fileName THEN asset ELSE b[i]]
  ELSE Append(b, asset)

findExistingAssetFileNameWithSource(b, source) ==
  LET same == {i \in 1..Len(b) : b[i].type = "asset" /\ b[i].source = source}
  IN IF same = {} THEN Null
     ELSE b[CHOOSE i \in same : \A j \in same : i <= j].fileName

RECURSIVE makeUnique(_, _, _)
makeUnique(fileName, b, n) ==
  LET candidate ==
        IF n = 1 THEN fileName
        ELSE dirname(fileName) \o <<fileName[Len(fileName)] \o ToString(n)>>
  IN IF candidate \in FileNames(b) THEN makeUnique(fileName, b, n + 1)
     ELSE candidate

generateAssetFileName(name, b) ==
  makeUnique(<<"assets">> \o (IF name = Null THEN <<"asset">> ELSE name), b, 1)

\* A host that never reuses the file of an asset with the same source.
HostEmitFileNoReuse(b, name, fileName, source) ==
  LET finalFileName == IF fileName # Null THEN fileName
                       ELSE generateAssetFileName(name, b)
  IN [fileName |-> finalFileName,
      bundle |-> SetEntry(b, OutputAsset(finalFileName, name, source))]

\* rollupPluginContext.emitFile followed by getFileName: the final file name
\* and the bundle afterwards.
HostEmitFile(b, name, fileName, source) ==
  LET existing == findExistingAssetFileNameWithSource(b, source)
      finalFileName ==
        IF fileName # Null THEN fileName
        ELSE IF existing # Null THEN existing
        ELSE generateAssetFileName(name, b)
  IN [fileName |-> finalFileName,
      bundle |-> SetEntry(b, OutputAsset(finalFileName, name, source))]

EmittedFileMeta(id, emitName, emitDefaultName, emitFileName, substitutions) ==
  [id |-> id, emitName |-> emitName, emitDefaultName |-> emitDefaultName,
   emitFileName |-> emitFileName, substitutions |-> substitutions]

\* emitFile(id, name, source, context) with name = {name} or {fileName}: the
\* meta of the emitted file (without substitutions) and the bundle afterwards.
emitFile(id, name, fileName, source, b) ==
  LET emitted == HostEmitFile(b, name, fileName, source)
      finalName == IF name # Null THEN name ELSE fileName
  IN [meta |-> EmittedFileMeta(id, finalName, finalName, emitted.fileName, <<>>),
      bundle |-> emitted.bundle]

\* The PluginMeta of the given modules that carry one, in the given order.
RECURSIVE getPluginMetas(_, _)
getPluginMetas(moduleIds, info) ==
  IF moduleIds = <<>> THEN <<>>
  ELSE (IF Head(moduleIds) \in DOMAIN info /\ info[Head(moduleIds)].has
        THEN <<info[Head(moduleIds)]>> ELSE <<>>)
       \o getPluginMetas(Tail(moduleIds), info)

\* The result of the emit functions: the metas and the bundle afterwards.
Emitted(metas, b) == [metas |-> metas, bundle |-> b]

RECURSIVE EmitAssetCssMetas(_, _, _, _)
EmitAssetCssMetas(pluginMetas, outputBasePath, assetOptions, b) ==
  IF pluginMetas = <<>> THEN Emitted(<<>>, b)
  ELSE
    LET meta == Head(pluginMetas)
        name == getAssetName(outputBasePath, meta.id, TRUE, assetOptions)
        file == emitFile(meta.id, name, Null, meta.css, b)
        rest == EmitAssetCssMetas(Tail(pluginMetas), outputBasePath, assetOptions,
                                  IF name # Null THEN file.bundle ELSE b)
    IN IF name # Null
       THEN Emitted(<<[file.meta EXCEPT !.substitutions = getSubstitutions(meta.inputs)]>>
                      \o rest.metas, rest.bundle)
       ELSE rest

emitAssetCssFiles(outputBasePath, assetOptions, info, b) ==
  EmitAssetCssMetas(getPluginMetas(getModuleIds(assetOptions.project), info),
                    outputBasePath, assetOptions, b)

\* { ...a, ...b } on module maps, as key lists: the keys of a in their order,
\* then the keys of b that a does not hold.
RECURSIVE Without(_, _)
Without(s, S) ==
  IF s = <<>> THEN <<>>
  ELSE (IF Head(s) \in S THEN <<>> ELSE <<Head(s)>>) \o Without(Tail(s), S)

\* { ...b, ...a } in place of { ...a, ...b }.
SpreadReversed(a, b) == b \o Without(a, Range(b))

Spread(a, b) == a \o Without(b, Range(a))

RECURSIVE Chunks(_)
Chunks(b) ==
  IF b = <<>> THEN <<>>
  ELSE (IF Head(b).type = "chunk" THEN <<Head(b)>> ELSE <<>>) \o Chunks(Tail(b))

\* The reduce over the chunks named by dynamicImports: obj = {...obj, ...modules}.
RECURSIVE DynamicChunksModules(_, _, _)
DynamicChunksModules(dynamicImports, chunks, obj) ==
  IF dynamicImports = <<>> THEN obj
  ELSE
    LET found == {i \in 1..Len(chunks) : chunks[i].fileName = Head(dynamicImports)}
        dynamicChunkModules ==
          IF found = {} THEN <<>>
          ELSE chunks[CHOOSE i \in found : \A j \in found : i <= j].modules
    IN DynamicChunksModules(Tail(dynamicImports), chunks,
                            Spread(obj, dynamicChunkModules))

getChunkModules(chunks, chunk) ==
  <<chunk.modules, DynamicChunksModules(chunk.dynamicImports, chunks, <<>>)>>

\* getCssDynamicOrigin that looks at the dynamically imported chunks only.
getCssDynamicOriginOfAnyImport(modulesMeta, dynamicModulesMeta, meta) ==
  meta \in Range(dynamicModulesMeta)

getCssDynamicOrigin(modulesMeta, dynamicModulesMeta, meta) ==
  meta \notin Range(modulesMeta) /\ meta \in Range(dynamicModulesMeta)

\* css.join('\r\n')
RECURSIVE Join(_)
Join(parts) ==
  IF parts = <<>> THEN <<>>
  ELSE IF Len(parts) = 1 THEN Head(parts)
  ELSE Head(parts) \o <<Break>> \o Join(Tail(parts))

ExtractResult(kind, name, hasSource, source, hasInputs, inputs) ==
  [kind |-> kind, name |-> name, hasSource |-> hasSource, source |-> source,
   hasInputs |-> hasInputs, inputs |-> inputs]

SuggestedResult(chunk, chunkPluginMetas) ==
  ExtractResult("object", <<chunk.name \o ".css">>,
                TRUE, Join([i \in 1..Len(chunkPluginMetas) |-> chunkPluginMetas[i].css]),
                TRUE, Flat([i \in 1..Len(chunkPluginMetas) |-> chunkPluginMetas[i].inputs]))

\* getCssDependencies(): inputFile, css, inputs and dynamicOrigin of each
\* reachable style module.
getCssDependencies(modules, dynamicModules, chunkPluginMetas, info) ==
  LET moduleMetas == getPluginMetas(modules, info)
      dynamicModuleMetas == getPluginMetas(dynamicModules, info)
  IN [i \in 1..Len(chunkPluginMetas) |->
        [inputFile |-> chunkPluginMetas[i].id,
         inputs |-> chunkPluginMetas[i].inputs,
         css |-> chunkPluginMetas[i].css,
         dynamicOrigin |-> getCssDynamicOrigin(moduleMetas, dynamicModuleMetas,
                                               chunkPluginMetas[i])]]

\* What the user's extract function may answer for a chunk.
ExtractAnswers == {"true", "falsy", "name+source", "inputs"}

RECURSIVE StaticCss(_)
StaticCss(deps) ==
  IF deps = <<>> THEN <<>>
  ELSE (IF Head(deps).dynamicOrigin THEN <<>> ELSE <<Head(deps).css>>)
       \o StaticCss(Tail(deps))

\* output.cssForChunks.extract = (chunk, cssDependencies, defaultResult) => ...
\*   "name+source": { name: 'css/<chunk>.css', source: the css of the modules
\*                    that are not of dynamic origin }
\*   "inputs":      { inputs: [] }, an object without name and source
ExtractFunction(answer, chunk, cssDependencies, defaultResult) ==
  CASE answer = "true"  -> ExtractResult("true", <<>>, FALSE, <<>>, FALSE, <<>>)
    [] answer = "falsy" -> ExtractResult("falsy", <<>>, FALSE, <<>>, FALSE, <<>>)
    [] answer = "name+source" ->
         ExtractResult("object", <<"css", chunk.name \o ".css">>,
                       TRUE, Join(StaticCss(cssDependencies)), FALSE, <<>>)
    [] OTHER -> ExtractResult("object", Null, FALSE, <<>>, TRUE, <<>>)

\* getExtractInfo that takes a falsy answer for the suggested result.
getExtractInfoFalsyAccepts(extract, answer, chunk, cssDependencies, suggestedResult) ==
  LET returned == IF extract = "function"
                  THEN ExtractFunction(answer, chunk, cssDependencies, suggestedResult)
                  ELSE suggestedResult
  IN IF returned.kind \in {"true", "falsy"} THEN suggestedResult
     ELSE ExtractResult("object", returned.name,
                        TRUE, IF returned.hasSource THEN returned.source
                              ELSE suggestedResult.source,
                        TRUE, IF returned.hasInputs THEN returned.inputs
                              ELSE suggestedResult.inputs)

\* getExtractInfo without the default of source.
getExtractInfoNoSourceDefault(extract, answer, chunk, cssDependencies, suggestedResult) ==
  LET returned == IF extract = "function"
                  THEN ExtractFunction(answer, chunk, cssDependencies, suggestedResult)
                  ELSE suggestedResult
      result == IF returned.kind = "falsy"
                THEN ExtractResult("object", <<>>, TRUE, <<>>, TRUE, <<>>)
                ELSE returned
  IN IF result.kind = "true" THEN suggestedResult
     ELSE ExtractResult("object", result.name, TRUE, result.source,
                        TRUE, IF result.hasInputs THEN result.inputs
                              ELSE suggestedResult.inputs)

getExtractInfo(extract, answer, chunk, cssDependencies, suggestedResult) ==
  LET returned == IF extract = "function"
                  THEN ExtractFunction(answer, chunk, cssDependencies, suggestedResult)
                  ELSE suggestedResult
      result == IF returned.kind = "falsy"
                THEN ExtractResult("object", <<>>, TRUE, <<>>, TRUE, <<>>)
                ELSE returned
  IN IF result.kind = "true" THEN suggestedResult
     ELSE ExtractResult("object", result.name,
                        TRUE, IF result.hasSource THEN result.source
                              ELSE suggestedResult.source,
                        TRUE, IF result.hasInputs THEN result.inputs
                              ELSE suggestedResult.inputs)

\* The body of the map that emits whatever the source is.
EmitChunkCssAlways(chunk, chunks, extract, answer, info, b) ==
  LET modules == getChunkModules(chunks, chunk)[1]
      dynamicModules == getChunkModules(chunks, chunk)[2]
      chunkPluginMetas == getPluginMetas(Spread(modules, dynamicModules), info)
      extractInfo ==
        getExtractInfo(extract, answer, chunk,
                       getCssDependencies(modules, dynamicModules, chunkPluginMetas, info),
                       SuggestedResult(chunk, chunkPluginMetas))
      file == emitFile(chunk.fileName, Null, extractInfo.name, extractInfo.source, b)
  IN Emitted(<<[file.meta EXCEPT !.substitutions = getSubstitutions(extractInfo.inputs)]>>,
             file.bundle)

\* The body of the map over the chunks: the chunk's css file, if any.
EmitChunkCss(chunk, chunks, extract, answer, info, b) ==
  LET modules == getChunkModules(chunks, chunk)[1]
      dynamicModules == getChunkModules(chunks, chunk)[2]
      chunkModules == Spread(modules, dynamicModules)
      chunkPluginMetas == getPluginMetas(chunkModules, info)
      suggestedResult == SuggestedResult(chunk, chunkPluginMetas)
      cssDependencies ==
        getCssDependencies(modules, dynamicModules, chunkPluginMetas, info)
      extractInfo ==
        getExtractInfo(extract, answer, chunk, cssDependencies, suggestedResult)
      file == emitFile(chunk.fileName, Null, extractInfo.name, extractInfo.source, b)
  IN IF Len(extractInfo.source) # 0
     THEN Emitted(<<[file.meta EXCEPT
                       !.substitutions = getSubstitutions(extractInfo.inputs)]>>,
                  file.bundle)
     ELSE Emitted(<<>>, b)

RECURSIVE EmitChunkCssMetas(_, _, _, _, _, _)
EmitChunkCssMetas(todo, chunks, extract, answers, info, b) ==
  IF todo = <<>> THEN Emitted(<<>>, b)
  ELSE
    LET first == EmitChunkCss(Head(todo), chunks, extract, answers[Head(todo).fileName],
                              info, b)
        rest == EmitChunkCssMetas(Tail(todo), chunks, extract, answers, info,
                                  first.bundle)
    IN Emitted(first.metas \o rest.metas, rest.bundle)

emitChunkCssFiles(b, extract, answers, info) ==
  EmitChunkCssMetas(Chunks(b), Chunks(b), extract, answers, info, b)

(***************************************************************************)
(* output.ts: emitAssetFiles.                                              *)
(***************************************************************************)
\* fs.promises.readFile(id) ... toString(): the content of an asset.
FileSource(id) == <<Tok("text", id)>>

\* The files whose read fails: on the "fontUnreadable" disk the font was
\* resolved but cannot be read.
Unreadable(disk) == IF disk = "fontUnreadable" THEN {Font} ELSE {}

\* A hook that renders without waiting for the reads.
ReadsNotAwaited(tasks) == TRUE

\* await Promise.all(reads): every read-and-emit promise is fulfilled.
ReadsFulfilled(tasks) == \A i \in 1..Len(tasks) : tasks[i].state = "emitted"

NoFileMeta == EmittedFileMeta(<<>>, <<>>, <<>>, <<>>, <<>>)
AssetTask(id, name) == [id |-> id, name |-> name, state |-> "reading", meta |-> NoFileMeta]

\* emitAssetFiles that emits the image and the font whatever ids it is given.
AssetTasksOfEveryAsset(ids, outputBasePath, assetOptions) ==
  LET task(id) == LET name == getAssetName(outputBasePath, id, FALSE, assetOptions)
                  IN IF name # Null THEN <<AssetTask(id, name)>> ELSE <<>>
  IN task(Img) \o task(Font)

\* The ids mapped to read-and-emit promises; ids without a name are dropped.
RECURSIVE AssetTasks(_, _, _)

AssetTasks(ids, outputBasePath, assetOptions) ==
  IF ids = <<>> THEN <<>>
  ELSE LET name == getAssetName(outputBasePath, Head(ids), FALSE, assetOptions)
       IN (IF name # Null THEN <<AssetTask(Head(ids), name)>> ELSE <<>>)
          \o AssetTasks(Tail(ids), outputBasePath, assetOptions)

\* emittedCssFilesMeta.map(({ substitutions }) => substitutions.map(([, id]) => id)).flat()
SubstitutionIds(cssFilesMeta) ==
  Flat([i \in 1..Len(cssFilesMeta) |->
          [j \in 1..Len(cssFilesMeta[i].substitutions) |->
             cssFilesMeta[i].substitutions[j][2]]])

(***************************************************************************)
(* render.ts                                                               *)
(***************************************************************************)
\* assets.publicPath = '/cdn/'
PublicPath == <<"", "cdn">>

\* What the url function is told about an emitted file: inputPath and
\* output { name, fileName, defaultName }.
AssetOutputMeta(meta) ==
  <<"inputPath">> \o meta.id \o <<"name">> \o meta.emitName
    \o <<"fileName">> \o meta.emitFileName \o <<"defaultName">> \o meta.emitDefaultName

\* assets.url = (urlInfo, defaultUrl) => ...: a formatter whose url spells
\* out everything it was called with.
UrlFunction(assetFileMeta, cssFileMeta, publicPath, defaultUrl) ==
  <<"assetFileMeta">> \o AssetOutputMeta(assetFileMeta)
    \o <<"cssFileMeta">> \o AssetOutputMeta(cssFileMeta)
    \o <<"publicPath", publicPath>> \o <<"defaultUrl">> \o defaultUrl

\* The url without the public path, whatever assets.publicPath is.
FinalUrlWithoutPublicPath(cssMeta, assetMeta, assetOptions) ==
  IF assetOptions.url = "function"
  THEN UrlFunction(assetMeta, cssMeta, assetOptions.publicPath,
                   relative(dirname(cssMeta.emitFileName), assetMeta.emitFileName))
  ELSE relative(dirname(cssMeta.emitFileName), assetMeta.emitFileName)

\* The url substituted for a placeholder of cssMeta that stands for assetMeta.
FinalUrl(cssMeta, assetMeta, assetOptions) ==
  LET resolvedUrl == relative(dirname(cssMeta.emitFileName), assetMeta.emitFileName)
      publicPathUrl ==
        (IF assetOptions.publicPath = "null" THEN <<>> ELSE PublicPath) \o resolvedUrl
  IN IF assetOptions.url = "function"
     THEN UrlFunction(assetMeta, cssMeta, assetOptions.publicPath, resolvedUrl)
     ELSE publicPathUrl

\* emittedAssetsMeta.find(({ id }) => id === substitute)
FindAssetMeta(assetsMeta, id) ==
  LET same == {i \in 1..Len(assetsMeta) : assetsMeta[i].id = id}
  IN IF same = {} THEN NoFileMeta
     ELSE assetsMeta[CHOOSE i \in same : \A j \in same : i <= j]

\* A record that binds the placeholder of a pair without an emitted asset to
\* the empty url.
computedSubstitutionsBindsMissing(cssMeta, assetsMeta, assetOptions) ==
  LET subs == cssMeta.substitutions
  IN [ph \in {subs[i][1] : i \in 1..Len(subs)} |->
        LET last == CHOOSE i \in 1..Len(subs) :
                      /\ subs[i][1] = ph
                      /\ \A j \in 1..Len(subs) : subs[j][1] = ph => j <= i
        IN IF \E k \in 1..Len(assetsMeta) : assetsMeta[k].id = subs[last][2]
           THEN relative(dirname(cssMeta.emitFileName),
                         assetsMeta[CHOOSE k \in 1..Len(assetsMeta) :
                                      assetsMeta[k].id = subs[last][2]].emitFileName)
           ELSE <<>>]

\* The record placeholder -> url built for one css file: the pairs without an
\* emitted asset are left out, a later pair overwrites an earlier one.
computedSubstitutions(cssMeta, assetsMeta, assetOptions) ==
  LET subs == cssMeta.substitutions
      found == {i \in 1..Len(subs) : FindAssetMeta(assetsMeta, subs[i][2]) # NoFileMeta}
  IN [ph \in {subs[i][1] : i \in found} |->
        LET last == CHOOSE i \in found :
                      /\ subs[i][1] = ph
                      /\ \A j \in found : subs[j][1] = ph => j <= i
        IN FinalUrl(cssMeta, FindAssetMeta(assetsMeta, subs[last][2]), assetOptions)]

Placeholders(source) ==
  {source[i].v : i \in {j \in 1..Len(source) : source[j].t = "placeholder"}}

\* A rendering: the source read from the bundle, and either the substituted
\* source (resolved) or the unbound placeholder (rejected); state "none"
\* when the bundle holds no asset of that file name.
Rendering(state, fileName, original, source, missing) ==
  [state |-> state, fileName |-> fileName, original |-> original, source |-> source,
   missing |-> missing]

\* renderCssFile that keeps the placeholders it has no value for.
renderCssFilePartial(fileName, source, substitutions) ==
  Rendering("resolved", fileName, source,
            [i \in 1..Len(source) |->
               IF source[i].t = "placeholder" /\ source[i].v \in DOMAIN substitutions
               THEN Tok("url", substitutions[source[i].v]) ELSE source[i]],
            <<>>)

\* renderCssFile: the template is the source with every placeholder as an
\* interpolation of the variable of that name, the arguments are the keys
\* of substitutions; a placeholder that is no argument is an unbound
\* variable and makes the rendering throw.
renderCssFile(fileName, source, substitutions) ==
  LET unbound == {i \in 1..Len(source) :
                    source[i].t = "placeholder" /\ source[i].v \notin DOMAIN substitutions}
  IN IF unbound # {}
     THEN Rendering("rejected", fileName, source, <<>>,
                    source[CHOOSE i \in unbound : \A j \in unbound : i <= j].v)
     ELSE Rendering("resolved", fileName, source,
                    [i \in 1..Len(source) |->
                       IF source[i].t = "placeholder"
                       THEN Tok("url", substitutions[source[i].v]) ELSE source[i]],
                    <<>>)

\* The body of the map over emittedCssFilesMeta, up to the rendering.
RenderOne(cssMeta, assetsMeta, b, assetOptions) ==
  LET assets == {i \in 1..Len(b) :
                   b[i].type = "asset" /\ b[i].fileName = cssMeta.emitFileName}
  IN IF assets = {} THEN Rendering("none", cssMeta.emitFileName, <<>>, <<>>, <<>>)
     ELSE renderCssFile(cssMeta.emitFileName,
                        b[CHOOSE i \in assets : \A j \in assets : i <= j].source,
                        computedSubstitutions(cssMeta, assetsMeta, assetOptions))

renderCssFiles(cssFilesMeta, assetsMeta, b, assetOptions) ==
  [i \in 1..Len(cssFilesMeta) |-> RenderOne(cssFilesMeta[i], assetsMeta, b, assetOptions)]

\* A renderer that drops the substituted source.
WriteSourceSkipped(b, fileName, source) == b

\* bundleAsset.source = substitutedSource
WriteSource(b, fileName, source) ==
  [i \in 1..Len(b) |->
     IF b[i].type = "asset" /\ b[i].fileName = fileName
     THEN [b[i] EXCEPT !.source = source] ELSE b[i]]

(***************************************************************************)
(* index.ts: the plugin's hooks.                                           *)
(***************************************************************************)
BuildError(stage, file, detail) == [stage |-> stage, file |-> file, detail |-> detail]

TotalRefs == LET RECURSIVE Sum(_)
                 Sum(S) == IF S = {} THEN 0
                           ELSE LET f == CHOOSE x \in S : TRUE
                                IN Cardinality(builds[f].refs) + Sum(S \ {f})
             IN Sum(StyleFiles)

emittedCssFilesMeta == emittedAssetCssFilesMeta \o emittedChunkCssFilesMeta

emittedAssetsMeta == [i \in 1..Len(assetFiles) |-> assetFiles[i].meta]

\* The chunks of the host's output, and the orders the bundle may list them in.
MainChunk == OutputChunk(<<"main.js">>, "main", <<FileJ, FileA, FileB>>, <<<<"dyn.js">>>>)
DynChunk  == OutputChunk(<<"dyn.js">>, "dyn", <<FileD, FileC>>, <<>>)
HostBundles == {<<MainChunk, DynChunk>>, <<DynChunk, MainChunk>>}
ChunkFileNames == {MainChunk.fileName, DynChunk.fileName}

\* The output of the "nested" project: main imports dyn dynamically, dyn
\* imports deep dynamically, and the bundle lists b.css among the modules of
\* main and of dyn.
NestedMain == OutputChunk(<<"main.js">>, "main", <<FileJ, FileA, FileB>>, <<<<"dyn.js">>>>)
NestedDyn  == OutputChunk(<<"dyn.js">>, "dyn", <<FileD, FileB>>, <<<<"deep.js">>>>)
NestedDeep == OutputChunk(<<"deep.js">>, "deep", <<FileE, FileC>>, <<>>)

\* The output of the "twins" project: the chunk of the dynamically imported
\* module has the name of the entry chunk (the host keeps their file names
\* apart), and util.js has a chunk of its own without any style module.
TwinMain  == OutputChunk(<<"main.js">>, "main", <<FileJ, FileA, FileB>>, <<<<"main2.js">>>>)
TwinChunk == OutputChunk(<<"main2.js">>, "main", <<FileD, FileC>>, <<>>)
UtilChunk == OutputChunk(<<"util.js">>, "util", <<FileU>>, <<>>)

getHostBundles(project) ==
  IF project = "nested"
  THEN {<<NestedMain, NestedDyn, NestedDeep>>}
  ELSE IF project = "twins"
  THEN {<<TwinMain, TwinChunk, UtilChunk>>, <<UtilChunk, TwinChunk, TwinMain>>}
  ELSE HostBundles

InitPipeline(optionValues) ==
  /\ options \in optionValues
  /\ builds = [f \in StyleFiles |-> NewBuild(f)]
  /\ moduleInfo = [f \in StyleFiles |-> NoMeta]
  /\ phase = "build"
  /\ bundle = <<>>
  /\ extractAnswers = [c \in ChunkFileNames |-> "none"]
  /\ emittedAssetCssFilesMeta = <<>>
  /\ emittedChunkCssFilesMeta = <<>>
  /\ assetFiles = <<>>
  /\ renders = <<>>
  /\ buildError = <<>>

InitWith(optionValues) ==
  /\ InitPipeline(optionValues)
  /\ run = NoRun
  /\ load = NoLoad

Init == InitWith(ExtractOptions)

InitRender == InitWith(RenderOptions)

InitAssets == InitWith(AssetOptions)

InitUrls == InitWith(UrlOptions)

InitConfig == InitWith(ConfigOptions)

InitReads == InitWith(ReadOptions)

InitChunks == InitWith(ChunkOptions)

\* The processing of one file: any of the names, of the cssProcessors and of
\* the worlds, with up to MaxImports imports; the plugin has its defaults.
InitProcessors ==
  /\ InitPipeline({RollupCss(defaultOptions @@ [project |-> "app", disk |-> "ok"])})
  /\ run \in {NewRun(name, processors, imports, world) :
                name \in SourceNames, processors \in CssProcessorsValues,
                imports \in ImportLists(MaxImports), world \in Worlds}
  /\ load = NoLoad

\* Arrays that all the runs of runEsbuild share.
PushedToShared(f, g) == TRUE

\* const inputs = [], const watchFiles = [] inside runEsbuild: the handler of
\* the run of f pushes to the arrays of the run of g only when g is f.
PushedTo(f, g) == g = f

\* esbuild reports a reference of style file f to the resolve handler.
OnResolve(f, ref) ==
  /\ phase = "build"
  /\ builds[f].status = "running"
  /\ ref \in RefsOf(options.project, f) \ builds[f].refs
  /\ TotalRefs < MaxRefs
  /\ LET handled == onResolve(ref.path, ref.kind, options.inline, options.resolve)
         out == EsbuildOutput(ref.path, handled)
         called == ResolveCalls(ref.path, ref.kind, options.resolve)
         pushed(b) ==
           [b EXCEPT !.inputs = IF handled.has THEN Append(@, handled.item) ELSE @,
                     !.kinds = IF handled.has THEN Append(@, ref.kind) ELSE @,
                     !.watchFiles = IF handled.watch # Null
                                    THEN Append(@, handled.watch) ELSE @]
     IN builds' = [g \in StyleFiles |->
          IF g = f
          THEN [pushed(builds[f]) EXCEPT
                    !.refs = @ \cup {ref},
                    !.calls = @ \o [i \in 1..Len(called) |->
                                      [who |-> called[i], ref |-> ref]],
                    !.css = IF out.t = "error" THEN @ ELSE Append(@, out),
                    !.errors = IF out.t = "error" THEN Append(@, ref.path) ELSE @]
          ELSE IF PushedTo(f, g) /\ builds[g].status = "running"
          THEN pushed(builds[g])
          ELSE builds[g]]
  /\ UNCHANGED processorVars
  /\ UNCHANGED <<options, moduleInfo, phase, bundle, extractAnswers,
                 emittedAssetCssFilesMeta, emittedChunkCssFilesMeta, assetFiles,
                 renders, buildError>>

\* transform(code, id): the esbuild run of f ends; its errors fail the
\* transform and with it the build, otherwise the PluginMeta is attached.
Transform(f) ==
  /\ phase = "build"
  /\ builds[f].status = "running"
  /\ IF builds[f].errors # <<>>
     THEN /\ builds' = [builds EXCEPT ![f].status = "failed"]
          /\ buildError' = Append(buildError,
                                  BuildError("transform", f, builds[f].errors[1]))
          /\ phase' = "failed"
          /\ UNCHANGED moduleInfo
     ELSE /\ builds' = [builds EXCEPT ![f].status = "done"]
          /\ moduleInfo' = [moduleInfo EXCEPT ![f] =
                              PluginMeta(f, builds[f].css, builds[f].inputs)]
          /\ UNCHANGED <<buildError, phase>>
  /\ UNCHANGED processorVars
  /\ UNCHANGED <<options, bundle, extractAnswers, emittedAssetCssFilesMeta,
                 emittedChunkCssFilesMeta, assetFiles, renders>>

\* generateBundle, step 1: the host calls the hook with its bundle once every
\* module is transformed; the css of the modules is emitted as assets.
GenerateBundleAssetCss ==
  /\ phase = "build"
  /\ \A f \in StyleFiles : builds[f].status = "done"
  /\ \E hostBundle \in getHostBundles(options.project) :
       LET outputBasePath == getOutputBasePath(getModuleIds(options.project))
           emitted == IF options.cssAsAssets = "true"
                      THEN emitAssetCssFiles(outputBasePath, options, moduleInfo,
                                             hostBundle)
                      ELSE Emitted(<<>>, hostBundle)
       IN /\ emittedAssetCssFilesMeta' = emitted.metas
          /\ bundle' = emitted.bundle
  /\ phase' = "chunks"
  /\ UNCHANGED processorVars
  /\ UNCHANGED <<options, builds, moduleInfo, extractAnswers,
                 emittedChunkCssFilesMeta, assetFiles, renders, buildError>>

\* generateBundle, steps 2 and 3 up to the await: the css of the chunks is
\* emitted and the read of every used asset is started.
GenerateBundleChunkCss ==
  /\ phase = "chunks"
  /\ \E answers \in [{bundle[i].fileName : i \in {j \in 1..Len(bundle) :
                                                     bundle[j].type = "chunk"}} ->
                        IF options.extract = "function" THEN ExtractAnswers
                        ELSE {"none"}] :
       LET emitted == IF options.extract # "false"
                      THEN emitChunkCssFiles(bundle, options.extract, answers, moduleInfo)
                      ELSE Emitted(<<>>, bundle)
       IN /\ extractAnswers' = answers
          /\ emittedChunkCssFilesMeta' = emitted.metas
          /\ bundle' = emitted.bundle
          /\ assetFiles' = AssetTasks(
                SubstitutionIds(emittedAssetCssFilesMeta \o emitted.metas),
                getOutputBasePath(getModuleIds(options.project)), options)
  /\ phase' = "assets"
  /\ UNCHANGED processorVars
  /\ UNCHANGED <<options, builds, moduleInfo, emittedAssetCssFilesMeta, renders,
                 buildError>>

\* A hook that takes no notice of a read that failed.
ReadRejectedSwallowed(ph, errors, id) == [phase |-> ph, buildError |-> errors]

\* await emitAssetFiles(...) when the read of id fails: Promise.all rejects
\* with the first failure and generateBundle with it; a later failure finds
\* the promise settled.
ReadRejected(ph, errors, id) ==
  IF ph = "assets"
  THEN [phase |-> "failed", buildError |-> Append(errors, BuildError("read", id, id))]
  ELSE [phase |-> ph, buildError |-> errors]

\* One of the pending reads ends: its content is emitted, or the read fails.
\* The reads that are pending when generateBundle has failed still end.
AssetFileRead(i) ==
  /\ phase \in {"assets", "failed"}
  /\ assetFiles[i].state = "reading"
  /\ IF assetFiles[i].id \in Unreadable(options.disk)
     THEN LET rejected == ReadRejected(phase, buildError, assetFiles[i].id)
          IN /\ assetFiles' = [assetFiles EXCEPT ![i].state = "failed"]
             /\ phase' = rejected.phase
             /\ buildError' = rejected.buildError
             /\ UNCHANGED bundle
     ELSE LET file == emitFile(assetFiles[i].id, assetFiles[i].name, Null,
                               FileSource(assetFiles[i].id), bundle)
          IN /\ assetFiles' = [assetFiles EXCEPT ![i].state = "emitted",
                                                 ![i].meta = file.meta]
             /\ bundle' = file.bundle
             /\ UNCHANGED <<phase, buildError>>
  /\ UNCHANGED processorVars
  /\ UNCHANGED <<options, builds, moduleInfo, extractAnswers,
                 emittedAssetCssFilesMeta, emittedChunkCssFilesMeta, renders>>

\* The renderings settle in the order of the css files: a resolved one
\* overwrites the source of its file, a rejected one is an error.
RECURSIVE WriteAll(_, _)
WriteAll(b, renderings) ==
  IF renderings = <<>> THEN b
  ELSE WriteAll(IF Head(renderings).state = "resolved"
                THEN WriteSource(b, Head(renderings).fileName, Head(renderings).source)
                ELSE b,
                Tail(renderings))

\* A hook that reports no rejected rendering.
RenderErrorsIgnored(renderings) == <<>>

\* Promise.all(...).catch(this.error): the rejection of the first rejected
\* rendering is the one reported to the host.
RECURSIVE RenderErrors(_)
RenderErrors(renderings) ==
  IF renderings = <<>> THEN <<>>
  ELSE IF Head(renderings).state = "rejected"
    THEN <<BuildError("render", Head(renderings).fileName, Head(renderings).missing)>>
  ELSE RenderErrors(Tail(renderings))

\* generateBundle, step 4: every read has ended; the css files are rendered
\* and the hook ends, by this.error if a rendering was rejected.
GenerateBundleRender ==
  /\ phase = "assets"
  /\ ReadsFulfilled(assetFiles)
  /\ LET renderings ==
           renderCssFiles(emittedCssFilesMeta, emittedAssetsMeta, bundle, options)
     IN /\ renders' = renderings
        /\ bundle' = WriteAll(bundle, renderings)
        /\ buildError' = buildError \o RenderErrors(renderings)
        /\ phase' = IF RenderErrors(renderings) # <<>> THEN "failed" ELSE "done"
  /\ UNCHANGED processorVars
  /\ UNCHANGED <<options, builds, moduleInfo, extractAnswers,
                 emittedAssetCssFilesMeta, emittedChunkCssFilesMeta, assetFiles>>

(***************************************************************************)
(* transform, step 1: runCssProcessors for one file.                       *)
(***************************************************************************)
\* await value(info) / await cssProcessors(info): the processor is entered.
CallProcessor(r, value) ==
  [r EXCEPT !.status = "processing", !.processor = value, !.ran = Append(@, value)]

\* runCssProcessors: a function is called; of a Map the entries are tested
\* one after the other and the value of the first whose key matches the id
\* is called; with no entry left the code is returned with the map null.
RunCssProcessors ==
  /\ run.status = "entries"
  /\ LET entries == run.cssProcessors.entries
     IN run' =
          IF run.cssProcessors.kind = "function" THEN CallProcessor(run, "custom")
          ELSE IF run.at > Len(entries) THEN [run EXCEPT !.status = "returned"]
          ELSE IF RegExpTest(entries[run.at].key, run.name)
            THEN CallProcessor(run, entries[run.at].value)
          ELSE [run EXCEPT !.at = @ + 1]
  /\ UNCHANGED <<load, pipelineVars>>

\* The compiler of the sass or less processor asks the load hook for the
\* next import: resolvePaths is called, by less with an importer.
ImporterLoad ==
  /\ run.status = "processing"
  /\ run.processor \in {"sass", "less"}
  /\ run.imports # <<>>
  /\ load.status \in {"idle", "loaded"}
  /\ load' = NewLoad(run.world, Head(run.imports),
                     IF run.processor = "less" THEN LessImporter ELSE Null)
  /\ UNCHANGED <<run, pipelineVars>>

\* const resolved = await resolve(pathsToResolve[i], finalImporter, '@import')
ResolveAttempt ==
  /\ load.status = "resolving"
  /\ load' = resolvePathsLoop(load,
               InfoResolve(run.world, load.pathsToResolve[load.at],
                           load.finalImporter, "@import"))
  /\ UNCHANGED <<run, pipelineVars>>

\* The load hook after resolvePaths: the resolved file is read and watched,
\* or "Couldn't resolve" is thrown, which the processor throws on as
\* "Couldn't compile".
LoadSettles ==
  /\ load.status \in {"resolved", "null"}
  /\ IF load.status = "resolved"
     THEN /\ load' = [load EXCEPT !.status = "loaded"]
          /\ run' = [run EXCEPT !.imports = Tail(@),
                                !.watchFiles = Append(@, load.resolvedPath)]
     ELSE /\ load' = [load EXCEPT !.status = "failed"]
          /\ run' = [run EXCEPT !.status = "thrown", !.error = load.importedPath]
  /\ UNCHANGED pipelineVars

\* return { css, map, watchFiles } of the processor, which is the result of
\* runCssProcessors.
ProcessorReturns ==
  /\ run.status = "processing"
  /\ load.status \in {"idle", "loaded"}
  /\ run.processor \in {"sass", "less"} => run.imports = <<>>
  /\ run' = [run EXCEPT !.status = "returned", !.css = Append(@, run.processor),
                        !.map = <<run.processor>>]
  /\ UNCHANGED <<load, pipelineVars>>

Next ==
  \/ \E f \in StyleFiles : \E ref \in RefsOf(options.project, f) : OnResolve(f, ref)
  \/ \E f \in StyleFiles : Transform(f)
  \/ GenerateBundleAssetCss
  \/ GenerateBundleChunkCss
  \/ \E i \in 1..Len(assetFiles) : AssetFileRead(i)
  \/ GenerateBundleRender

Spec == Init /\ [][Next]_vars

SpecRender == InitRender /\ [][Next]_vars

SpecAssets == InitAssets /\ [][Next]_vars

SpecUrls == InitUrls /\ [][Next]_vars

SpecConfig == InitConfig /\ [][Next]_vars

SpecReads == InitReads /\ [][Next]_vars

SpecChunks == InitChunks /\ [][Next]_vars

NextProcessors ==
  \/ RunCssProcessors
  \/ ImporterLoad
  \/ ResolveAttempt
  \/ LoadSettles
  \/ ProcessorReturns

SpecProcessors == InitProcessors /\ [][NextProcessors]_vars

(***************************************************************************)
(* Properties.                                                             *)
(***************************************************************************)
\* generateBundle has run to its end (the renderings have settled).
Rendered == phase \in {"done", "failed"} /\ \A f \in StyleFiles : moduleInfo[f].has

\* An asset was emitted for the dependency id.
AssetEmitted(id) == \E i \in 1..Len(assetFiles) : assetFiles[i].meta.id = id

\* The source of the file of an emitted css file, as the bundle holds it.
SourceOf(meta) == EntryOf(bundle, meta.emitFileName).source

\* The placeholders of the source of css file i that no pair of its
\* substitution list binds to an emitted asset.
Unresolved(i) ==
  LET subs == emittedCssFilesMeta[i].substitutions
  IN {ph \in Placeholders(renders[i].original) :
        ~\E j \in 1..Len(subs) : subs[j][1] = ph /\ AssetEmitted(subs[j][2])}

\* C1 (as stated): whenever a pair of the substitution list of an emitted css
\* file names a dependency that no emitted asset has, the render of that css
\* file fails and its source stays as it was.
C1_AnyMissingPairFails ==
  Rendered =>
    \A i \in 1..Len(renders) :
      \A j \in 1..Len(emittedCssFilesMeta[i].substitutions) :
        ~AssetEmitted(emittedCssFilesMeta[i].substitutions[j][2]) =>
          /\ renders[i].state = "rejected"
          /\ SourceOf(emittedCssFilesMeta[i]) = renders[i].original

\* C1 (amended): when the source of an emitted css file holds a placeholder
\* that its substitution list binds to no emitted asset, the render of that
\* css file fails with an error naming the file and the placeholder of the
\* missing dependency, and that render writes nothing: the file holds its
\* source as it was or the complete substitution of another rendering of the
\* same file, never a partial substitution.
C1_RenderAllOrNothing ==
  Rendered =>
    \A i \in 1..Len(renders) :
      Unresolved(i) # {} =>
        /\ renders[i].state = "rejected"
        /\ renders[i].fileName = emittedCssFilesMeta[i].emitFileName
        /\ renders[i].missing \in Unresolved(i)
        /\ \/ SourceOf(emittedCssFilesMeta[i]) = renders[i].original
           \/ \E k \in 1..Len(renders) :
                /\ renders[k].state = "resolved"
                /\ renders[k].fileName = renders[i].fileName
                /\ Placeholders(renders[k].source) = {}
                /\ SourceOf(emittedCssFilesMeta[i]) = renders[k].source

\* C1 witness: a css file whose placeholder has no emitted asset was rendered.
C1_Witness ==
  /\ Rendered
  /\ \E i \in 1..Len(renders) : Unresolved(i) # {} /\ renders[i].state = "rejected"

\* C2: after generateBundle has ended without error, the source of every
\* emitted css file holds no placeholder any more.
C2_NoPlaceholderLeft ==
  phase = "done" =>
    \A i \in 1..Len(emittedCssFilesMeta) :
      /\ emittedCssFilesMeta[i].emitFileName \in FileNames(bundle)
      /\ Placeholders(SourceOf(emittedCssFilesMeta[i])) = {}

\* C2 witness: a build ended without error in which a css file with a
\* placeholder was emitted and its placeholder replaced by a url.
C2_Witness ==
  /\ phase = "done"
  /\ \E i \in 1..Len(emittedCssFilesMeta) :
       /\ emittedCssFilesMeta[i].substitutions # <<>>
       /\ \E k \in 1..Len(SourceOf(emittedCssFilesMeta[i])) :
            SourceOf(emittedCssFilesMeta[i])[k].t = "url"

\* What a reference resolves to: the result handed to the handler's branches.
Resolved(ref) ==
  LET normalized == normalizeRollupResolveId(RollupResolve(ref.path), ref.path,
                                             getResolveContext(ref.kind))
  IN IF options.resolve = "function"
     THEN ResolveFunction(ref.path, getResolveContext(ref.kind), normalized)
     ELSE normalized

\* The non-external, non-inlined url() references the bundled file f holds.
AssetRefs(f) ==
  {ref \in builds[f].refs :
     /\ ref.kind = "url-token"
     /\ ~isExternalUrl(ref.path)
     /\ Resolved(ref).ok
     /\ ~Resolved(ref).external
     /\ ~getIsInlined(Resolved(ref).path, options.inline)}

\* Positions of the placeholders in a css text, of the items with a
\* placeholder in an inputs list.
PlaceholderTokens(css) == {i \in 1..Len(css) : css[i].t = "placeholder"}
PlaceholderItems(inputs) == {i \in 1..Len(inputs) : inputs[i].placeholder # <<>>}

\* C3 (as stated): the css of a file with N non-external, non-inlined url()
\* references holds exactly N distinct placeholders and its inputs hold N
\* items with those placeholders.
C3_DistinctPlaceholderPerReference ==
  \A f \in StyleFiles :
    builds[f].status = "done" =>
      /\ Cardinality(Placeholders(builds[f].css)) = Cardinality(AssetRefs(f))
      /\ Cardinality(PlaceholderItems(builds[f].inputs)) = Cardinality(AssetRefs(f))

\* C3 (amended): the css of a file with N non-external, non-inlined url()
\* references holds N placeholder occurrences and its inputs hold N items
\* with a placeholder, the placeholders of the items being those of the css;
\* the placeholder is a function of the resolved path, so there are as many
\* distinct placeholders as there are distinct resolved paths among the N
\* references.
C3_PlaceholderPerResolvedPath ==
  \A f \in StyleFiles :
    builds[f].status = "done" =>
      /\ Cardinality(PlaceholderTokens(builds[f].css)) = Cardinality(AssetRefs(f))
      /\ Cardinality(PlaceholderItems(builds[f].inputs)) = Cardinality(AssetRefs(f))
      /\ {builds[f].inputs[i].placeholder : i \in PlaceholderItems(builds[f].inputs)}
           = Placeholders(builds[f].css)
      /\ Cardinality(Placeholders(builds[f].css))
           = Cardinality({Resolved(ref).path : ref \in AssetRefs(f)})

\* C3 witness: a bundled file with two such references to two files.
C3_Witness ==
  \E f \in StyleFiles :
    /\ builds[f].status = "done"
    /\ Cardinality(AssetRefs(f)) = 2
    /\ Cardinality(Placeholders(builds[f].css)) = 2

\* The css text and the css code of the modules of the main chunk.
MainChunkCss ==
  moduleInfo[FileA].css \o <<Break>> \o moduleInfo[FileB].css \o <<Break>>
    \o moduleInfo[FileC].css

\* The chunk css files emitted for the chunk with the given file name.
ChunkCssMetas(chunkFileName) ==
  {i \in 1..Len(emittedChunkCssFilesMeta) :
     emittedChunkCssFilesMeta[i].id = chunkFileName}

\* emitChunkCssFiles took the suggested result for the chunk.
SuggestionTaken(chunkFileName) ==
  \/ options.extract = "true"
  \/ options.extract = "function" /\ extractAnswers[chunkFileName] = "true"

\* C4: the css extracted by default for the main chunk (static modules a.css
\* and b.css, c.css reached through the dynamically imported chunk) is the
\* css of a.css, of b.css and of c.css in this order, joined by line breaks,
\* whatever the order of the chunks in the bundle.
C4_StaticBeforeDynamic ==
  (phase = "assets" /\ SuggestionTaken(MainChunk.fileName)) =>
    /\ Cardinality(ChunkCssMetas(MainChunk.fileName)) = 1
    /\ \A i \in ChunkCssMetas(MainChunk.fileName) :
         SourceOf(emittedChunkCssFilesMeta[i]) = MainChunkCss

\* C4 witness: the dynamically imported chunk precedes the main chunk in the
\* bundle and the css of the main chunk was extracted by default.
C4_Witness ==
  /\ phase = "assets"
  /\ SuggestionTaken(MainChunk.fileName)
  /\ Chunks(bundle) = <<DynChunk, MainChunk>>
  /\ Len(moduleInfo[FileA].css) > 1
  /\ Len(moduleInfo[FileC].css) > 1
  /\ \E i \in ChunkCssMetas(MainChunk.fileName) :
       SourceOf(emittedChunkCssFilesMeta[i]) = MainChunkCss

\* Name, source and substitutions of the chunk css files in metas, those of
\* the chunk c left out.
Artifacts(metas, b, c) ==
  LET kept == Without(metas, {m \in Range(metas) : m.id = c})
  IN [i \in 1..Len(kept) |->
        [id |-> kept[i].id, name |-> kept[i].emitName,
         source |-> EntryOf(b, kept[i].emitFileName).source,
         substitutions |-> kept[i].substitutions]]

\* The bundle emitChunkCssFiles was called with.
BundleBeforeChunkCss ==
  IF options.cssAsAssets = "true"
  THEN emitAssetCssFiles(getOutputBasePath(getModuleIds(options.project)), options, moduleInfo,
                         Chunks(bundle)).bundle
  ELSE Chunks(bundle)

\* C5: when the extract function answers a falsy value for a chunk, no css
\* file is emitted and no meta recorded for that chunk, and name, source and
\* substitutions of the css files of the other chunks are what they are when
\* the function answers anything else for that chunk.
C5_FalsySuppressesOneChunk ==
  (phase = "assets" /\ options.extract = "function") =>
    \A c \in ChunkFileNames :
      extractAnswers[c] = "falsy" =>
        /\ ChunkCssMetas(c) = {}
        /\ \A a \in ExtractAnswers :
             LET other == emitChunkCssFiles(BundleBeforeChunkCss, options.extract,
                                            [extractAnswers EXCEPT ![c] = a], moduleInfo)
             IN Artifacts(emittedChunkCssFilesMeta, bundle, c)
                  = Artifacts(other.metas, other.bundle, c)

\* C5 witness: the function suppressed one chunk and the css file of the
\* other chunk was emitted.
C5_Witness ==
  /\ phase = "assets"
  /\ options.extract = "function"
  /\ extractAnswers[DynChunk.fileName] = "falsy"
  /\ extractAnswers[MainChunk.fileName] # "falsy"
  /\ ChunkCssMetas(DynChunk.fileName) = {}
  /\ ChunkCssMetas(MainChunk.fileName) # {}

\* The resolved paths the inline option matches.
Inlined(path) == path \in {Img, Font, Part} /\ getIsInlined(path, options.inline)

\* C6: an asset whose resolved path is matched by assets.inline gets no
\* placeholder (none in an inputs item, none in a css text), is in no
\* substitution list, is not watched and is not emitted by emitAssetFiles;
\* each url() reference to it is served by the dataurl loader.
C6_InlinedExclusive ==
  \A path \in {Img, Font, Part} :
    Inlined(path) =>
      /\ \A f \in StyleFiles :
           /\ \A i \in 1..Len(builds[f].inputs) :
                builds[f].inputs[i].path = path =>
                  builds[f].inputs[i].placeholder = <<>>
           /\ Placeholder(path) \notin Placeholders(builds[f].css)
           /\ path \notin Range(builds[f].watchFiles)
           /\ \A ref \in builds[f].refs :
                (ref.kind = "url-token" /\ Resolved(ref).ok /\ ~Resolved(ref).external
                   /\ Resolved(ref).path = path)
                  => Tok("dataurl", path) \in Range(builds[f].css)
      /\ \A i \in 1..Len(emittedCssFilesMeta) :
           \A j \in 1..Len(emittedCssFilesMeta[i].substitutions) :
             emittedCssFilesMeta[i].substitutions[j][2] # path
      /\ ~\E i \in 1..Len(assetFiles) : assetFiles[i].id = path

\* C6 witness: a build ended in which a file referred to an inlined and to an
\* emitted asset.
C6_Witness ==
  /\ phase = "done"
  /\ \E f \in StyleFiles : \E ref \in builds[f].refs :
       /\ ref.kind = "url-token"
       /\ Resolved(ref).ok
       /\ Inlined(Resolved(ref).path)
       /\ AssetRefs(f) # {}
  /\ assetFiles # <<>>

\* The path of a source file relative to the base src, and its basename.
BaseRelative(id) == SubSeq(id, 3, Len(id))
Flattened(id) == <<id[Len(id)]>>

\* The name C7 gives a file: the directory is kept for style files under
\* 'css' and true, for other assets under 'asset' and true.
ExpectedName(id, isCss) ==
  IF \/ options.preserveDir = "true"
     \/ options.preserveDir = "css" /\ isCss
     \/ options.preserveDir = "asset" /\ ~isCss
  THEN BaseRelative(id) ELSE Flattened(id)

\* C7: without a file function, a style file is emitted under its
\* base-relative path when preserveDir is 'css' or true and under its basename
\* when it is 'asset' or false; another asset is emitted under its
\* base-relative path when preserveDir is 'asset' or true and under its
\* basename when it is 'css' or false.  With 'css', src/sub/b.css gets
\* sub/b.css and src/sub/img.png gets img.png.
C7_PreserveDirPolicy ==
  (options.file = "true" /\ options.preserveDir \in {"true", "false", "css", "asset"}) =>
    /\ \A i \in 1..Len(emittedAssetCssFilesMeta) :
         LET m == emittedAssetCssFilesMeta[i]
         IN /\ m.emitName = ExpectedName(m.id, TRUE)
            /\ (options.preserveDir = "css" /\ m.id = FileB) => m.emitName = <<"sub", "b.css">>
            /\ (options.preserveDir = "asset" /\ m.id = FileB) => m.emitName = <<"b.css">>
    /\ \A i \in 1..Len(assetFiles) :
         LET t == assetFiles[i]
         IN /\ t.name = ExpectedName(t.id, FALSE)
            /\ (options.preserveDir = "css" /\ t.id = Img) => t.name = <<"img.png">>
            /\ (options.preserveDir = "asset" /\ t.id = Img) => t.name = <<"sub", "img.png">>
            /\ t.state = "emitted" => t.meta.emitName = t.name
    /\ phase \in {"chunks", "assets", "done"} =>
         Len(emittedAssetCssFilesMeta) = Cardinality(StyleFiles)

\* C7 witness: with preserveDir 'css' the style file of sub/ kept its
\* directory and the image of sub/ was emitted under its basename.
C7_Witness ==
  /\ options.file = "true"
  /\ options.preserveDir = "css"
  /\ \E i \in 1..Len(emittedAssetCssFilesMeta) :
       /\ emittedAssetCssFilesMeta[i].id = FileB
       /\ emittedAssetCssFilesMeta[i].emitName = <<"sub", "b.css">>
  /\ \E i \in 1..Len(assetFiles) :
       /\ assetFiles[i].id = Img
       /\ assetFiles[i].state = "emitted"
       /\ assetFiles[i].meta.emitName = <<"img.png">>

\* The reference no resolver answers.
Unresolvable == Ref("url-token", TextMissing)

C9_PlaceholderIffNotExternalNotInlined ==
  \A f \in StyleFiles :
    \A i \in 1..Len(builds[f].inputs) :
      LET item == builds[f].inputs[i]
      IN (item.placeholder # <<>>) <=> (~item.external /\ item.inlined # "true")

\* C9 (amended): an item of an inputs list has a placeholder if and only if
\* it was recorded for a url token and is non-external and non-inlined; an
\* item recorded for an import rule never has a placeholder, and inlined is
\* decided only for the items of non-external url tokens.
C9_PlaceholderIffUrlTokenNotExternalNotInlined ==
  \A f \in StyleFiles :
    /\ Len(builds[f].kinds) = Len(builds[f].inputs)
    /\ \A i \in 1..Len(builds[f].inputs) :
         LET item == builds[f].inputs[i]
             kind == builds[f].kinds[i]
         IN /\ (item.placeholder # <<>>)
                 <=> (kind = "url-token" /\ ~item.external /\ item.inlined # "true")
            /\ kind = "import-rule" => item.placeholder = <<>>
            /\ (item.inlined # "unset") <=> (kind = "url-token" /\ ~item.external)
            /\ item.placeholder # <<>> => item.placeholder = Placeholder(item.path)

\* C9 witness: a non-external item of an import rule next to the item of a
\* url token with a placeholder.
C9_Witness ==
  \E f \in StyleFiles :
    \E i, j \in 1..Len(builds[f].inputs) :
      /\ builds[f].kinds[i] = "import-rule"
      /\ ~builds[f].inputs[i].external
      /\ builds[f].inputs[i].placeholder = <<>>
      /\ builds[f].kinds[j] = "url-token"
      /\ builds[f].inputs[j].placeholder # <<>>

\* The css and the inputs of the style modules a chunk reaches, the static
\* ones alone, and the chunk's name.
ReachedBy(c) == IF c = MainChunk.fileName THEN <<FileA, FileB, FileC>> ELSE <<FileC>>
StaticOf(c) == IF c = MainChunk.fileName THEN <<FileA, FileB>> ELSE <<FileC>>
NameOf(c) == IF c = MainChunk.fileName THEN "main" ELSE "dyn"
CssOf(files) == Join([i \in 1..Len(files) |-> moduleInfo[files[i]].css])
InputsOf(files) == Flat([i \in 1..Len(files) |-> moduleInfo[files[i]].inputs])

\* The css file of chunk c has the given name, source and inputs.
ChunkCssIs(c, name, source, inputs) ==
  /\ Cardinality(ChunkCssMetas(c)) = 1
  /\ \A i \in ChunkCssMetas(c) :
       /\ emittedChunkCssFilesMeta[i].emitName = name
       /\ SourceOf(emittedChunkCssFilesMeta[i]) = source
       /\ emittedChunkCssFilesMeta[i].substitutions = getSubstitutions(inputs)

\* C10 (as stated): every field an override leaves unset takes the value of
\* the suggested result, the name included.
C10_EveryUnsetFieldDefaults ==
  (phase = "assets" /\ options.extract = "function") =>
    \A c \in ChunkFileNames :
      extractAnswers[c] = "inputs" =>
        ChunkCssIs(c, <<NameOf(c) \o ".css">>, CssOf(ReachedBy(c)), <<>>)

\* C10 (amended): an override without source uses the concatenated css and
\* one without inputs the inputs of all reachable modules; the name is used as
\* the override gives it, also when it gives none; true yields the suggested
\* result (name <chunkName>.css, concatenated css, all inputs).
C10_SourceAndInputsDefault ==
  (phase = "assets" /\ options.extract = "function") =>
    \A c \in ChunkFileNames :
      /\ extractAnswers[c] = "true" =>
           ChunkCssIs(c, <<NameOf(c) \o ".css">>, CssOf(ReachedBy(c)),
                      InputsOf(ReachedBy(c)))
      /\ extractAnswers[c] = "name+source" =>
           ChunkCssIs(c, <<"css", NameOf(c) \o ".css">>, CssOf(StaticOf(c)),
                      InputsOf(ReachedBy(c)))
      /\ extractAnswers[c] = "inputs" =>
           ChunkCssIs(c, Null, CssOf(ReachedBy(c)), <<>>)

\* C10 witness: one chunk got an override without inputs and the other an
\* override without name and source, and a reachable module has inputs with
\* a placeholder.
C10_Witness ==
  /\ phase = "assets"
  /\ options.extract = "function"
  /\ extractAnswers[MainChunk.fileName] = "name+source"
  /\ extractAnswers[DynChunk.fileName] = "inputs"
  /\ getSubstitutions(InputsOf(ReachedBy(MainChunk.fileName))) # <<>>
  /\ ChunkCssMetas(MainChunk.fileName) # {}
  /\ ChunkCssMetas(DynChunk.fileName) # {}

\* The path a placeholder was made of, the final file name of the asset
\* emitted for a path, and the meta of that asset.
PathOf(placeholder) == SubSeq(placeholder, 3, Len(placeholder))
AssetMetaOf(path) ==
  assetFiles[CHOOSE i \in 1..Len(assetFiles) :
               /\ assetFiles[i].id = path
               /\ assetFiles[i].state = "emitted"
               /\ \A j \in 1..(i - 1) : assetFiles[j].id # path].meta

\* publicPath + the path of the asset's file relative to the directory of
\* the css file.
DefaultUrl(cssMeta, placeholder) ==
  (IF options.publicPath = "null" THEN <<>> ELSE PublicPath)
    \o relative(dirname(cssMeta.emitFileName),
                AssetMetaOf(PathOf(placeholder)).emitFileName)

\* Every placeholder of every emitted css file was replaced by Url of the
\* css file's meta and the placeholder, in the rendering and in the bundle.
ReplacedBy(Url(_, _)) ==
  \A i \in 1..Len(renders) :
    /\ renders[i].state = "resolved"
    /\ \A k \in 1..Len(renders[i].original) :
         renders[i].original[k].t = "placeholder" =>
           /\ renders[i].source[k] =
                Tok("url", Url(emittedCssFilesMeta[i], renders[i].original[k].v))
           /\ SourceOf(emittedCssFilesMeta[i])[k] = renders[i].source[k]

\* C11: without a url function every placeholder of an emitted css file is
\* replaced by publicPath (nothing when null) followed by the path of the
\* asset's final file name relative to the directory of the css file's final
\* file name.
C11_DefaultUrl ==
  (phase = "done" /\ options.url = "null") => ReplacedBy(DefaultUrl)

\* C11 witness: with a public path, a css file in a directory of its own got
\* a url that climbs out of that directory.
C11_Witness ==
  /\ phase = "done"
  /\ options.url = "null"
  /\ options.publicPath = "string"
  /\ \E i \in 1..Len(renders) : \E k \in 1..Len(renders[i].source) :
       /\ renders[i].source[k].t = "url"
       /\ renders[i].source[k].v = PublicPath \o <<"..", "font.woff">>

\* What C12 expects of the url function: called with the metas of the asset
\* and of the css file, the public path and the default url.
FormattedUrl(cssMeta, placeholder) ==
  UrlFunction(AssetMetaOf(PathOf(placeholder)), cssMeta, options.publicPath,
              DefaultUrl(cssMeta, placeholder))

\* C12 (as stated): with a url function every placeholder is replaced by what
\* the function returns for the metas of the asset and of the css file and
\* the default url, the default url being publicPath + relative path.
C12_FormatterGetsDefaultUrl ==
  (phase = "done" /\ options.url = "function") => ReplacedBy(FormattedUrl)

\* The file function answers null for the asset, whatever its default name.
Suppressed(path) == options.file = "function" /\ FileFunction(path, <<>>, FALSE) = Null

\* C13: an asset the file function answers null for is not emitted by
\* emitAssetFiles, and when the source of an emitted css file holds the
\* placeholder of that asset, the rendering of that css file is rejected and
\* generateBundle ends with an error: no build ends without error with the
\* placeholder kept or replaced by nothing.
C13_SuppressedAssetFailsRender ==
  \A path \in {Img, Font} :
    Suppressed(path) =>
      /\ \A i \in 1..Len(assetFiles) : assetFiles[i].id # path
      /\ Rendered =>
           \A i \in 1..Len(renders) :
             Placeholder(path) \in Placeholders(renders[i].original) =>
               /\ renders[i].state = "rejected"
               /\ renders[i].fileName = emittedCssFilesMeta[i].emitFileName
               /\ phase = "failed"
               /\ buildError # <<>>
               /\ buildError[Len(buildError)].stage = "render"

\* C13 witness: the font was referred to, the file function suppressed it
\* and the rendering of a css file with its placeholder was rejected.
C13_Witness ==
  /\ Rendered
  /\ Suppressed(Font)
  /\ \E i \in 1..Len(renders) :
       /\ Placeholder(Font) \in Placeholders(renders[i].original)
       /\ renders[i].state = "rejected"
       /\ renders[i].missing = Placeholder(Font)

\* C14 (as stated): with assets.file = false neither emitAssetCssFiles nor
\* emitAssetFiles emits a file; with assets.file = true every style module
\* and every used asset is emitted.
C14_FileFalseOutputsNothing ==
  /\ options.file = "false" =>
       /\ emittedAssetCssFilesMeta = <<>>
       /\ assetFiles = <<>>
  /\ (options.file = "true" /\ phase \in {"assets", "done"}) =>
       /\ {emittedAssetCssFilesMeta[i].id : i \in 1..Len(emittedAssetCssFilesMeta)}
            = StyleFiles
       /\ \A id \in Range(SubstitutionIds(emittedCssFilesMeta)) :
            \E i \in 1..Len(assetFiles) : assetFiles[i].id = id

\* C16 (as stated): the emitDefaultName of every file emitted under a name
\* of getAssetName is the suggested name, the one picked without the file
\* option, also when the file function returned another name.
C16_DefaultNameIsSuggestedName ==
  /\ \A i \in 1..Len(emittedAssetCssFilesMeta) :
       emittedAssetCssFilesMeta[i].emitDefaultName
         = ExpectedName(emittedAssetCssFilesMeta[i].id, TRUE)
  /\ \A i \in 1..Len(assetFiles) :
       assetFiles[i].state = "emitted" =>
         assetFiles[i].meta.emitDefaultName = ExpectedName(assetFiles[i].id, FALSE)

\* The plugin was created with a cssForChunks the documentation of the
\* option takes for "no output": an empty object or one without extract,
\* false, null or undefined.
NoCssForChunks ==
  \/ options.cssForChunks.kind \in {"false", "null", "undefined"}
  \/ options.cssForChunks.kind = "object" /\ options.cssForChunks.extract = "unset"

\* C15 (as stated): a plugin created with such a cssForChunks has extract =
\* false and generateBundle emits no css file for any chunk.
C15_NoCssForChunksNoOutput ==
  NoCssForChunks =>
    /\ options.extract = "false"
    /\ emittedChunkCssFilesMeta = <<>>
    /\ \A i \in 1..Len(bundle) :
         bundle[i].fileName \notin {<<"main.css">>, <<"dyn.css">>}

\* The names of the emitted files, given the number of leading segments of
\* the source path that the base directory takes away.
NamesBelow(n) ==
  /\ \A i \in 1..Len(emittedAssetCssFilesMeta) :
       LET m == emittedAssetCssFilesMeta[i]
       IN m.emitName = SubSeq(m.id, n + 1, Len(m.id))
  /\ \A i \in 1..Len(assetFiles) :
       assetFiles[i].name = SubSeq(assetFiles[i].id, n + 1, Len(assetFiles[i].id))

\* C19 (as stated): the base of the default names is the common directory
\* of the style files, /src, whether or not the module ids hold a non-style
\* module outside of it.
C19_BaseOfStyleFilesOnly == NamesBelow(2)

\* C19 (amended): the base of the default names is the common directory of
\* all module ids of the host, style modules or not: /src in the project
\* whose modules all lie below /src, the root in the project with a
\* non-style module in /lib, where the names begin with src/.
C19_BaseOfAllModules ==
  /\ options.project = "app" => NamesBelow(2)
  /\ options.project = "vendor" => NamesBelow(1)

\* C19 witness: in the project with the module in /lib, a style file and an
\* asset were emitted under names that begin with src/.
C19_Witness ==
  /\ options.project = "vendor"
  /\ \E i \in 1..Len(emittedAssetCssFilesMeta) :
       /\ emittedAssetCssFilesMeta[i].id = FileA
       /\ emittedAssetCssFilesMeta[i].emitName = <<"src", "a.css">>
  /\ \E i \in 1..Len(assetFiles) :
       /\ assetFiles[i].state = "emitted"
       /\ assetFiles[i].meta.emitName = <<"src", "font.woff">>

\* The resolvers awaited for a reference of file f.
CalledFor(f, ref) ==
  {builds[f].calls[i].who : i \in {j \in 1..Len(builds[f].calls) :
                                     builds[f].calls[j].ref = ref}}

\* The reference is kept in the css of f as an external url.
KeptExternal(f, ref) == Tok("external", ref.path) \in Range(builds[f].css)

\* References by an absolute root path, a '#' id or an http: url.
OutsideRefs(f) == {ref \in builds[f].refs : ref.path \in {TextRoot, TextHash, TextHttp}}

\* C20 (as stated): such a reference, url() or @import, is kept as external
\* and neither the host's resolve nor the resolve option is called for it.
C20_ExternalWithoutResolve ==
  \A f \in StyleFiles : \A ref \in OutsideRefs(f) :
    /\ CalledFor(f, ref) = {}
    /\ KeptExternal(f, ref)

\* C20 (amended): for an http:, https: or data: url, url() or @import, the
\* handler returns at once, no resolver is called and the reference stays
\* external.  For a url() with an absolute root path or a '#' id the host's
\* resolve is called first, then the resolve option if it is a function; the
\* reference is external when the host resolves nothing and the option keeps
\* that result, and it is recorded as an external input without placeholder.
\* An @import of an absolute root path is not external: the host's resolve is
\* called and the unresolved path is an error of the build.
C20_ExternalAfterResolve ==
  \A f \in StyleFiles : \A ref \in OutsideRefs(f) :
    /\ isExternalUrl(ref.path) =>
         /\ CalledFor(f, ref) = {}
         /\ KeptExternal(f, ref)
         /\ \A i \in 1..Len(builds[f].inputs) : builds[f].inputs[i].path # ref.path
    /\ ~isExternalUrl(ref.path) =>
         /\ CalledFor(f, ref) =
              {"host"} \cup (IF options.resolve = "function" THEN {"resolve"} ELSE {})
         /\ ref.kind = "url-token" =>
              /\ KeptExternal(f, ref)
              /\ CssInputItem(ref.path, TRUE, "unset", <<>>) \in Range(builds[f].inputs)
         /\ ref.kind = "import-rule" =>
              /\ ref.path \in Range(builds[f].errors)
              /\ builds[f].status \in {"running", "failed"}

\* C20 witness: with a resolve function, a file referred to an http: url and
\* to an absolute root path.
C20_Witness ==
  /\ options.resolve = "function"
  /\ \E f \in StyleFiles :
       /\ Ref("url-token", TextHttp) \in builds[f].refs
       /\ Ref("url-token", TextRoot) \in builds[f].refs
       /\ CalledFor(f, Ref("url-token", TextRoot)) = {"host", "resolve"}
       /\ builds[f].status = "done"

\* generateBundle has emitted the css of the modules and of the chunks, with
\* both cssAsAssets and extract enabled.
BothEmitted ==
  /\ phase \in {"assets", "done", "failed"}
  /\ \A f \in StyleFiles : moduleInfo[f].has
  /\ options.cssAsAssets = "true"
  /\ options.extract # "false"

\* The emitted css files that got the file name fileName.
MetasOf(fileName) ==
  {i \in 1..Len(emittedCssFilesMeta) : emittedCssFilesMeta[i].emitFileName = fileName}

\* C17: with both cssAsAssets and extract enabled, no css file
\* emitted by emitChunkCssFiles has the final file name of a css file emitted
\* by emitAssetCssFiles, and every emitted css file of the bundle belongs to
\* exactly one EmittedCssFileMeta.
C17_ChunkAndAssetCssDisjoint ==
  BothEmitted =>
    /\ \A i \in 1..Len(emittedChunkCssFilesMeta) :
         \A j \in 1..Len(emittedAssetCssFilesMeta) :
           emittedChunkCssFilesMeta[i].emitFileName
             # emittedAssetCssFilesMeta[j].emitFileName
    /\ \A i \in 1..Len(emittedCssFilesMeta) :
         MetasOf(emittedCssFilesMeta[i].emitFileName) = {i}

\* The renderings that were rejected, by their position.
RejectedRenders == {i \in 1..Len(renders) : renders[i].state = "rejected"}

\* C18: when the rendering of at least one emitted css file is rejected for a
\* placeholder without emitted asset, generateBundle ends by reporting an
\* error to the host, the one of the first rejected rendering, and the build
\* has failed, whether or not other css files were rendered.
C18_RejectedRenderFailsBuild ==
  (Rendered /\ RejectedRenders # {}) =>
    LET first == CHOOSE i \in RejectedRenders : \A j \in RejectedRenders : i <= j
    IN /\ phase = "failed"
       /\ buildError # <<>>
       /\ buildError[Len(buildError)]
            = BuildError("render", renders[first].fileName, renders[first].missing)
       /\ renders[first].missing \in Unresolved(first)

\* C18 witness: one css file was rejected while another css file was rendered
\* and written to the bundle.
C18_Witness ==
  /\ Rendered
  /\ \E i \in RejectedRenders :
       \E k \in 1..Len(renders) :
         /\ renders[k].state = "resolved"
         /\ renders[k].fileName # renders[i].fileName
         /\ renders[k].source # renders[k].original
         /\ SourceOf(emittedCssFilesMeta[k]) = renders[k].source

\* This step changes the source of an entry the bundle holds already.
SourceOverwritten ==
  \E i \in 1..Len(bundle) : \E j \in 1..Len(bundle') :
    bundle[i].fileName = bundle'[j].fileName /\ bundle[i].source # bundle'[j].source

\* This step emits: the bundle gets an entry or a read-and-emit promise ends.
Emits == Len(bundle') # Len(bundle) \/ assetFiles' # assetFiles

\* C21: within one generateBundle run the source of an emitted css file is
\* overwritten only in the step that follows the emission of the css of the
\* modules and of every chunk and the end of every read-and-emit promise, that
\* step emits nothing, and once the renderings have settled nothing is
\* emitted any more.
C21_RenderAfterEveryEmission ==
  [][/\ SourceOverwritten =>
          /\ phase = "assets" /\ phase' \in {"done", "failed"}
          /\ ReadsFulfilled(assetFiles)
          /\ renders = <<>> /\ renders' # <<>>
          /\ ~Emits
          /\ emittedAssetCssFilesMeta' = emittedAssetCssFilesMeta
          /\ emittedChunkCssFilesMeta' = emittedChunkCssFilesMeta
     /\ renders # <<>> => (~Emits /\ bundle' = bundle)]_vars

\* C21 witness: generateBundle has ended after the css of a chunk and two
\* assets were emitted and a css file that refers to both was rendered.
C21_Witness ==
  /\ phase = "done"
  /\ emittedChunkCssFilesMeta # <<>>
  /\ \E i, j \in 1..Len(assetFiles) :
       /\ assetFiles[i].id # assetFiles[j].id
       /\ assetFiles[i].state = "emitted" /\ assetFiles[j].state = "emitted"
  /\ \E k \in 1..Len(renders) :
       /\ renders[k].state = "resolved"
       /\ Cardinality(Placeholders(renders[k].original)) = 2
       /\ SourceOf(emittedCssFilesMeta[k]) = renders[k].source

\* The read-and-emit promises whose read has failed, by their position.
FailedReads == {i \in 1..Len(assetFiles) : assetFiles[i].state = "failed"}

\* C24: when the read of a referenced asset has failed, generateBundle has
\* failed with the error of that read as its only error, the reads of the
\* other assets that are still pending can end all the same, no rendering was
\* started and no source of the bundle holds a substituted url.
C24_FailedReadFailsBuild ==
  FailedReads # {} =>
    /\ phase = "failed"
    /\ Len(buildError) = 1
    /\ buildError[1].stage = "read"
    /\ \E i \in FailedReads : buildError[1].file = assetFiles[i].id
    /\ \A i \in 1..Len(assetFiles) :
         assetFiles[i].state = "reading" => ENABLED AssetFileRead(i)
    /\ renders = <<>>
    /\ \A i \in 1..Len(bundle) : \A k \in 1..Len(bundle[i].source) :
         bundle[i].source[k].t # "url"
    /\ \A i \in 1..Len(emittedCssFilesMeta) :
         Placeholders(SourceOf(emittedCssFilesMeta[i]))
           = {emittedCssFilesMeta[i].substitutions[j][1] :
                j \in 1..Len(emittedCssFilesMeta[i].substitutions)}

\* C24 witness: the read of the font has failed, the read of the image has
\* ended with its emission, and no read is pending.
C24_Witness ==
  /\ FailedReads # {}
  /\ \E i \in 1..Len(assetFiles) :
       assetFiles[i].state = "emitted" /\ AssetEmitted(Img)
  /\ \A i \in 1..Len(assetFiles) : assetFiles[i].state # "reading"
  /\ emittedCssFilesMeta # <<>>

\* The bundle after emitChunkCssFiles has emitted the css of the first k
\* chunks.
ChunkEmission(k) ==
  EmitChunkCssMetas(SubSeq(Chunks(bundle), 1, k), Chunks(bundle), options.extract,
                    extractAnswers, moduleInfo, BundleBeforeChunkCss).bundle

\* Every entry of the bundle b1 is an entry of b2, with the same source.
KeepsSources(b1, b2) ==
  \A i \in 1..Len(b1) :
    \E j \in 1..Len(b2) : b2[j].fileName = b1[i].fileName /\ b2[j].source = b1[i].source

\* The emission of the css of each chunk has left the source of every entry
\* the bundle held before as it was.
ChunkEmissionKeepsSources ==
  (/\ phase \in {"assets", "done", "failed"}
   /\ \A f \in StyleFiles : moduleInfo[f].has
   /\ options.extract # "false") =>
    \A k \in 1..Len(Chunks(bundle)) : KeepsSources(ChunkEmission(k - 1), ChunkEmission(k))

HandledOf(f) ==
  {onResolve(ref.path, ref.kind, options.inline, options.resolve) : ref \in builds[f].refs}

\* C23: however the resolve handlers of the transforms of different files
\* interleave, the inputs and watchFiles of the run of a file are exactly the
\* dependencies its own handler resolved, one input per reference handled,
\* and the PluginMeta of the file holds these inputs.
C23_InputsOfOwnRun ==
  \A f \in StyleFiles :
    /\ Range(builds[f].inputs) = {h.item : h \in {x \in HandledOf(f) : x.has}}
    /\ Len(builds[f].inputs)
         = Cardinality({ref \in builds[f].refs :
              onResolve(ref.path, ref.kind, options.inline, options.resolve).has})
    /\ Range(builds[f].watchFiles) = {h.watch : h \in {x \in HandledOf(f) : x.watch # Null}}
    /\ moduleInfo[f].has => moduleInfo[f].inputs = builds[f].inputs

\* C23 witness: the runs of a.css and of c.css are both under way and each
\* has resolved a dependency the other has not.
C23_Witness ==
  /\ builds[FileA].status = "running" /\ builds[FileC].status = "running"
  /\ \E i \in 1..Len(builds[FileA].inputs) :
       builds[FileA].inputs[i] \notin Range(builds[FileC].inputs)
  /\ \E i \in 1..Len(builds[FileC].inputs) :
       builds[FileC].inputs[i] \notin Range(builds[FileA].inputs)

\* The "nested" project: the style modules a chunk reaches (its own, then
\* those of the chunks it imports dynamically itself), and those among them
\* that are modules of the chunk itself.
NestedReach(c) ==
  IF c = NestedMain.fileName THEN <<FileA, FileB>>
  ELSE IF c = NestedDyn.fileName THEN <<FileB, FileC>>
  ELSE <<FileC>>
NestedStatic(c) ==
  IF c = NestedMain.fileName THEN <<FileA, FileB>>
  ELSE IF c = NestedDyn.fileName THEN <<FileB>>
  ELSE <<FileC>>
NestedChunks == {NestedMain, NestedDyn, NestedDeep}

\* C27: the css of a chunk is taken from its own modules and from the modules
\* of the chunks it imports dynamically itself, not from those imported in
\* turn (main does not reach c.css of deep); a module of both (b.css, of main
\* and of dyn) is taken once, at its place among the chunk's own modules, and
\* the extract function is told dynamicOrigin = false for it and for every
\* module of the chunk itself, true for a module reached only through a
\* dynamically imported chunk (c.css for dyn).
C27_ReachableModules ==
  (phase = "assets" /\ options.project = "nested") =>
    \A chunk \in NestedChunks :
      LET c == chunk.fileName
      IN /\ SuggestionTaken(c) =>
              ChunkCssIs(c, <<chunk.name \o ".css">>, CssOf(NestedReach(c)),
                         InputsOf(NestedReach(c)))
         /\ (options.extract = "function" /\ extractAnswers[c] = "name+source") =>
              ChunkCssIs(c, <<"css", chunk.name \o ".css">>, CssOf(NestedStatic(c)),
                         InputsOf(NestedReach(c)))

\* C27 witness: the extract function answered with the css of the modules
\* that are not of dynamic origin for main and for dyn, and b.css and c.css
\* have inputs.
C27_Witness ==
  /\ phase = "assets" /\ options.project = "nested"
  /\ options.extract = "function"
  /\ extractAnswers[NestedMain.fileName] = "name+source"
  /\ extractAnswers[NestedDyn.fileName] = "name+source"
  /\ extractAnswers[NestedDeep.fileName] = "true"
  /\ moduleInfo[FileA].inputs # <<>>
  /\ moduleInfo[FileC].inputs # <<>>
  /\ \A chunk \in NestedChunks : ChunkCssMetas(chunk.fileName) # {}

\* The style modules a chunk of the "nested" or of the "twins" project
\* reaches, and those of the chunk itself.
ReachOf(c) ==
  IF options.project = "nested" THEN NestedReach(c)
  ELSE IF c = TwinMain.fileName THEN <<FileA, FileB, FileC>>
  ELSE IF c = TwinChunk.fileName THEN <<FileC>>
  ELSE <<>>
OwnOf(c) ==
  IF options.project = "nested" THEN NestedStatic(c)
  ELSE IF c = TwinMain.fileName THEN <<FileA, FileB>>
  ELSE IF c = TwinChunk.fileName THEN <<FileC>>
  ELSE <<>>

\* The final source and the final inputs of chunk c under the strategy taken.
FinalSource(c) ==
  IF SuggestionTaken(c) \/ extractAnswers[c] = "inputs" THEN CssOf(ReachOf(c))
  ELSE IF extractAnswers[c] = "name+source" THEN CssOf(OwnOf(c))
  ELSE <<>>
FinalInputs(c) ==
  IF SuggestionTaken(c) \/ extractAnswers[c] = "name+source" THEN InputsOf(ReachOf(c))
  ELSE <<>>

\* The (placeholder, path) pairs of the inputs that carry a placeholder.
RECURSIVE PlaceholderPairs(_)
PlaceholderPairs(inputs) ==
  IF inputs = <<>> THEN <<>>
  ELSE (IF Head(inputs).placeholder = <<>> THEN <<>>
        ELSE << <<Head(inputs).placeholder, Head(inputs).path>> >>)
       \o PlaceholderPairs(Tail(inputs))

\* C28: for every chunk and every strategy (the default, the answers true, an
\* object and a falsy value of the extract function) a css file is emitted
\* for the chunk exactly when its final source is not empty, once, and its
\* substitution list is the list of the (placeholder, path) pairs of the final
\* inputs that carry a placeholder, in their order; a chunk that reaches no
\* style module gets no css file by default.
C28_EmittedIffSourceNotEmpty ==
  (phase = "assets" /\ options.project \in {"nested", "twins"}) =>
    \A i \in 1..Len(Chunks(bundle)) :
      LET c == Chunks(bundle)[i].fileName
      IN /\ ChunkCssMetas(c) # {} <=> FinalSource(c) # <<>>
         /\ Cardinality(ChunkCssMetas(c)) <= 1
         /\ \A k \in ChunkCssMetas(c) :
              emittedChunkCssFilesMeta[k].substitutions = PlaceholderPairs(FinalInputs(c))
         /\ (options.extract = "true" /\ ReachOf(c) = <<>>) => ChunkCssMetas(c) = {}

\* C28 witness: the extract function answered a falsy value for one chunk
\* and true for a chunk that reaches an external input and an input with a
\* placeholder.
C28_Witness ==
  /\ phase = "assets" /\ options.project = "nested"
  /\ options.extract = "function"
  /\ extractAnswers[NestedDeep.fileName] = "falsy"
  /\ extractAnswers[NestedMain.fileName] = "true"
  /\ ChunkCssMetas(NestedDeep.fileName) = {}
  /\ \E k \in ChunkCssMetas(NestedMain.fileName) :
       /\ Len(emittedChunkCssFilesMeta[k].substitutions) = 1
       /\ Len(InputsOf(NestedReach(NestedMain.fileName))) = 2

\* generateBundle has passed its emissions of css files.
CssEmitted ==
  /\ phase \in {"assets", "done", "failed"}
  /\ \A f \in StyleFiles : moduleInfo[f].has

\* C29: every asset emitAssetFiles reads and emits has the id of a dependency
\* in the substitution list of an emitted css file, every asset of the bundle
\* is the file of an emitted css file or of such an asset, and with cssAsAssets
\* = false and no extraction the bundle stays as the host made it, without
\* any css file, asset or rendering.
C29_OnlyUsedAssets ==
  CssEmitted =>
    /\ \A i \in 1..Len(assetFiles) :
         \E k \in 1..Len(emittedCssFilesMeta) :
           \E j \in 1..Len(emittedCssFilesMeta[k].substitutions) :
             emittedCssFilesMeta[k].substitutions[j][2] = assetFiles[i].id
    /\ \A i \in 1..Len(bundle) :
         bundle[i].type = "asset" =>
           \/ \E k \in 1..Len(emittedCssFilesMeta) :
                emittedCssFilesMeta[k].emitFileName = bundle[i].fileName
           \/ \E k \in 1..Len(assetFiles) :
                /\ assetFiles[k].state = "emitted"
                /\ assetFiles[k].meta.emitFileName = bundle[i].fileName
    /\ (options.cssAsAssets = "false" /\ options.extract = "false") =>
         /\ bundle \in HostBundles
         /\ emittedCssFilesMeta = <<>>
         /\ assetFiles = <<>>
         /\ renders = <<>>

\* C29 witness: generateBundle has ended with the image emitted, which a css
\* file uses, and without the font, which a module refers to by a placeholder
\* that no emitted css file has in its substitution list.
C29_Witness ==
  /\ phase = "done"
  /\ \A f \in StyleFiles : moduleInfo[f].has
  /\ AssetEmitted(Img)
  /\ ~AssetEmitted(Font)
  /\ \E f \in StyleFiles : \E i \in 1..Len(moduleInfo[f].inputs) :
       moduleInfo[f].inputs[i].path = Font /\ moduleInfo[f].inputs[i].placeholder # <<>>

\* The read-and-emit promises of emitAssetFiles for the dependency id.
TasksOf(id) == {i \in 1..Len(assetFiles) : assetFiles[i].id = id}

\* The number of times id is the dependency of a pair of a substitution list.
RECURSIVE Occurrences(_, _)
Occurrences(id, ids) ==
  IF ids = <<>> THEN 0
  ELSE (IF Head(ids) = id THEN 1 ELSE 0) + Occurrences(id, Tail(ids))

\* C30 (as stated): emitAssetFiles reads and emits each dependency id once,
\* so emittedAssetsMeta holds at most one record per id.
C30_OneReadPerDependency ==
  CssEmitted =>
    \A i, j \in 1..Len(assetFiles) :
      assetFiles[i].id = assetFiles[j].id => i = j

\* C30 (amended): emitAssetFiles reads and emits a dependency once for every
\* pair of the substitution lists that names it; the records of one id are
\* equal, the bundle holds one file for them, and every placeholder a css file
\* has for that id is replaced by the url of that file.
C30_OneFilePerDependency ==
  CssEmitted =>
    \A i \in 1..Len(assetFiles) :
      LET id == assetFiles[i].id
          emitted == {k \in TasksOf(id) : assetFiles[k].state = "emitted"}
      IN /\ Cardinality(TasksOf(id)) = Occurrences(id, SubstitutionIds(emittedCssFilesMeta))
         /\ \A k \in emitted : \A l \in emitted : assetFiles[k].meta = assetFiles[l].meta
         /\ \A k \in emitted :
              Cardinality({n \in 1..Len(bundle) :
                             bundle[n].source = FileSource(id)}) = 1
         /\ \A k \in emitted : \A r \in 1..Len(renders) :
              \A n \in 1..Len(renders[r].source) :
                (/\ renders[r].state = "resolved"
                 /\ renders[r].original[n] = Tok("placeholder", Placeholder(id))) =>
                  renders[r].source[n]
                    = Tok("url", relative(dirname(renders[r].fileName),
                                          assetFiles[k].meta.emitFileName))

\* C30 witness: generateBundle has ended; the css file of a module and the
\* css file of a chunk refer to the same dependency, which was read and
\* emitted for each of them, and both css files were rendered.
C30_Witness ==
  /\ phase = "done"
  /\ \E i, j \in 1..Len(assetFiles) :
       /\ i # j
       /\ assetFiles[i].id = assetFiles[j].id
       /\ assetFiles[i].state = "emitted" /\ assetFiles[j].state = "emitted"
  /\ emittedAssetCssFilesMeta # <<>> /\ emittedChunkCssFilesMeta # <<>>
  /\ \A r \in 1..Len(renders) : renders[r].state = "resolved"

\* The processors of a Map whose keys match the name, in the declared
\* order; a function is the only processor of its configuration.
MatchingProcessors(processors, name) ==
  IF processors.kind = "function" THEN <<"custom">>
  ELSE LET matching == SelectSeq(processors.entries,
                                 LAMBDA e : RegExpTest(e.key, name))
       IN [i \in 1..Len(matching) |-> matching[i].value]

\* C25: when runCssProcessors returns, every processor whose pattern matches
\* the file has run, in the declared order, each on the css of the one
\* before it, so the css returned is the code compiled by all of them; with
\* no match it is the code itself, with no map.
C25_ResultIsComposition ==
  run.status = "returned" =>
    LET matching == MatchingProcessors(run.cssProcessors, run.name)
    IN /\ run.ran = matching
       /\ run.css = <<"code">> \o matching
       /\ matching = <<>> => run.map = Null

\* The last k segments of a path, as path.join gives them.
EndOf(p, k) == SelectSeq(SubSeq(p, Len(p) - k + 1, Len(p)), LAMBDA x : x # "")

\* resolvePaths has returned (and its load hook may have, too).
ResolvePathsReturned == load.status \in {"resolved", "null", "loaded", "failed"}

\* C26: resolvePaths resolves the imported path as it is first; it tries
\* again only when that path does not exist and no importer was given, each
\* time the same path with the next parent directory as importer; it stops
\* at the first path resolved, makes no more attempts than the path has
\* segments, and returns null when all failed, which the processor throws.
C26_ProbesParentsAsImporters ==
  ResolvePathsReturned =>
    LET a == load.attempts
        n == Len(a)
    IN /\ n >= 1 /\ a[1].path = load.importedPath
       /\ n > 1 => ~existsSync(run.world, load.importedPath) /\ load.importer = Null
       /\ \A i \in 2..n :
            /\ a[i].path = load.importedPath
            /\ a[i].importer = SubSeq(load.importedPath, 1, Len(load.importedPath) - (i - 1))
       /\ n <= Len(load.importedPath)
       /\ \A i \in 1..(n - 1) : a[i].resolved = Null
       /\ load.status \in {"null", "failed"} => a[n].resolved = Null
       /\ load.status = "failed" => run.status = "thrown"

\* C26 (amended): resolvePaths resolves the imported path as it is first; it
\* tries again only when that path does not exist, with or without an
\* importer given, each time a longer end of the path (the file name first)
\* with the importer of the first attempt, which is the given one if there
\* is one; it stops at the first path resolved, makes at most one attempt
\* more than the path has segments, and returns null only when all these
\* attempts failed, which the processor throws.
C26_RetriesEndsOfPath ==
  ResolvePathsReturned =>
    LET a == load.attempts
        n == Len(a)
        exists == existsSync(run.world, load.importedPath)
    IN /\ n >= 1 /\ a[1].path = load.importedPath
       /\ n > 1 => ~exists
       /\ \A i \in 2..n : a[i].path = EndOf(load.importedPath, i - 1)
       /\ \A i \in 1..n : a[i].importer = a[1].importer
       /\ load.importer # Null => a[1].importer = load.importer
       /\ n <= 1 + Len(load.importedPath)
       /\ \A i \in 1..(n - 1) : a[i].resolved = Null
       /\ load.status \in {"resolved", "loaded"} =>
            a[n].resolved # Null /\ load.resolvedPath = a[n].resolved
       /\ load.status \in {"null", "failed"} =>
            /\ a[n].resolved = Null
            /\ n = IF exists THEN 1 ELSE 1 + Len(load.importedPath)
       /\ load.status = "failed" =>
            run.status = "thrown" /\ run.error = load.importedPath
       /\ load.status = "loaded" => run.status # "thrown"

\* The load hook of the less processor, which gives an importer, asked for a
\* path that does not exist, and the third attempt resolved an end of it.
C26_Witness ==
  /\ load.status = "resolved"
  /\ load.importer # Null
  /\ Len(load.attempts) = 3
  /\ load.attempts[3].path = <<"lib", "mix.scss">>
  /\ load.resolvedPath = ModuleMix

====
